---- MODULE Spec2Model ----
(***************************************************************************)
(* VoxelToyBox: the voxel simulation and transition engine of              *)
(* src/services/VoxelEngine.ts, mirror/selection variant (lines 1084-1758).*)
(*                                                                         *)
(* Numbers.  A JavaScript number that holds a coordinate, a velocity or a  *)
(* rotation is a fixed-point integer counted in 1/Scale of a grid unit, and*)
(* every product is rounded to the nearest such value.  A time is a number *)
(* of milliseconds.  A colour is the THREE.Color triple of its 8-bit       *)
(* channels; a hex colour is the 24-bit integer.                           *)
(***************************************************************************)
EXTENDS Integers, Sequences, FiniteSets, TLC

\* ------------------------------------------------------------------------
\* Bounds of the model
\* ------------------------------------------------------------------------

\* CONFIG.MAX_VOXELS is 1500 in the source; the capacity is scaled down.
MAX_VOXELS == 3

\* VoxelEngine.maxHistory is 50 in the source; the depth is scaled down.
maxHistory == 2

\* Number of handler calls (frames apart) the environment makes in a run.
MaxCalls == 3

\* The same for the runs that only place voxels.
MaxPlaceCalls == 6

\* The same for the runs of the transitions (dismantle, rebuild, frames).
MaxViewCalls == 2

\* The same for the runs around one rebuild, undone and redone.
MaxUndoCalls == 4

\* The same for the runs that carry a selection drag into a rebuild.
MaxFlightCalls == 5

\* Largest |rotation| (in 1/Scale radian) up to which DISMANTLING frames
\* are followed: rotation grows without limit while dismantling.
MaxRot == 800

\* ------------------------------------------------------------------------
\* Arithmetic
\* ------------------------------------------------------------------------

Scale == 1000

Abs(n) == IF n < 0 THEN -n ELSE n

Sign(n) == IF n < 0 THEN -1 ELSE 1

Min(a, b) == IF a < b THEN a ELSE b

Max(a, b) == IF a > b THEN a ELSE b

\* n / d rounded to the nearest integer, halves away from zero (d > 0).
RoundDiv(n, d) == Sign(n) * ((2 * Abs(n) + d) \div (2 * d))

\* +v.toFixed(2): round to two decimals.
ToFixed2(v) == RoundDiv(v, Scale \div 100) * (Scale \div 100)

\* a * (p / q) as the product of a number with the constant p/q.
Times(a, p, q) == RoundDiv(a * p, q)

\* ------------------------------------------------------------------------
\* CONFIG (src/unnamed/part_003) and enums (src/unnamed/part_000)
\* ------------------------------------------------------------------------

FLOOR_Y == -12 * Scale

GRAVITY == (25 * Scale) \div 1000

\* DAMPING 0.9, MORPH_SPEED 0.12 and the bounce factor 0.55 as percents.
DAMPING == 90

MORPH_SPEED == 12

BOUNCE == 55

\* Arrival threshold 0.02 of updatePhysics.
ARRIVE_EPS == (2 * Scale) \div 100

\* Resting height of a voxel lying on the floor.
FloorRest == FLOOR_Y + Scale \div 2

MATTE == 0

METAL == 1

GLOW == 2

\* A VoxelData whose optional material field is absent.
NoMaterial == -1

STABLE == "STABLE"

DISMANTLING == "DISMANTLING"

REBUILDING == "REBUILDING"

VIEW == "VIEW"

BUILD == "BUILD"

BuildTools == {"pencil", "eraser", "picker", "select", "paintBucket"}

\* ------------------------------------------------------------------------
\* Colours
\* ------------------------------------------------------------------------

\* new THREE.Color(hex): the three 8-bit channels.
Color(hex) == << (hex \div 65536) % 256, (hex \div 256) % 256, hex % 256 >>

\* color.getHex()
GetHex(c) == c[1] * 65536 + c[2] * 256 + c[3]

\* Default build colour 0x3b82f6 and the placeholder white 0xffffff.
BLUE == 3900150

WHITE == 16777215

\* ------------------------------------------------------------------------
\* Voxels and their persisted form
\* ------------------------------------------------------------------------

\* A SimulationVoxel at rest: the object literal of addVoxel / loadSnapshot.
NewVoxel(id, x, y, z, hex, material) ==
    [id |-> id, x |-> x, y |-> y, z |-> z, color |-> Color(hex),
     material |-> material,
     vx |-> 0, vy |-> 0, vz |-> 0, rx |-> 0, ry |-> 0, rz |-> 0,
     rvx |-> 0, rvy |-> 0, rvz |-> 0]

\* A VoxelData literal.
VoxelData(x, y, z, hex, material) ==
    [x |-> x, y |-> y, z |-> z, color |-> hex, material |-> material]

\* v.material ?? 0
OrMatte(material) == IF material = NoMaterial THEN MATTE ELSE material

\* getVoxelData(): the persisted fields, coordinates rounded to 2 decimals.
getVoxelData(vs) ==
    [i \in 1..Len(vs) |->
        VoxelData(ToFixed2(vs[i].x), ToFixed2(vs[i].y), ToFixed2(vs[i].z),
                  GetHex(vs[i].color), vs[i].material)]

\* A restore that forgets the materials.
FromDataMatte(data) ==
    [i \in 1..Len(data) |->
        NewVoxel(i - 1, data[i].x, data[i].y, data[i].z, data[i].color,
                 MATTE)]

\* The voxel list loadSnapshot and loadInitialModel build from a VoxelData
\* list: ids are the indices, all transient fields zero.
FromData(data) ==
    [i \in 1..Len(data) |->
        NewVoxel(i - 1, data[i].x, data[i].y, data[i].z, data[i].color,
                 OrMatte(data[i].material))]

\* voxels.some(v => v.x === x && v.y === y && v.z === z)
SomeAt(vs, x, y, z) ==
    \E i \in 1..Len(vs) : vs[i].x = x /\ vs[i].y = y /\ vs[i].z = z

\* voxels.findIndex(v => v.x === x && ...): first index, 0 when none.
FindIndexAt(vs, x, y, z) ==
    IF SomeAt(vs, x, y, z)
    THEN CHOOSE i \in 1..Len(vs) :
            /\ vs[i].x = x /\ vs[i].y = y /\ vs[i].z = z
            /\ \A j \in 1..(i - 1) :
                  ~(vs[j].x = x /\ vs[j].y = y /\ vs[j].z = z)
    ELSE 0

\* The list without its element at index i.
RemoveIndex(vs, i) == SubSeq(vs, 1, i - 1) \o SubSeq(vs, i + 1, Len(vs))

\* voxels.filter(keep)
RECURSIVE FilterSeq(_, _)
FilterSeq(vs, keepIdx) ==
    IF vs = << >> THEN << >>
    ELSE LET n == Len(vs)
             front == FilterSeq(SubSeq(vs, 1, n - 1), keepIdx)
         IN IF n \in keepIdx THEN Append(front, vs[n]) ELSE front

IdsOf(vs) == {vs[i].id : i \in 1..Len(vs)}

\* Date.now() + Math.random(): a number no voxel and no selection entry
\* carries; far above every index id.
FreshBase == 100

FreshId(used) == CHOOSE n \in FreshBase..(FreshBase + Cardinality(used)) :
                    n \notin used

\* n such numbers, all different.
RECURSIVE FreshIds(_, _)
FreshIds(used, n) ==
    IF n = 0 THEN << >>
    ELSE LET id == FreshId(used)
         IN << id >> \o FreshIds(used \cup {id}, n - 1)

\* ------------------------------------------------------------------------
\* History (pushHistory / undo / redo)
\* ------------------------------------------------------------------------

\* A full stack that turns the new snapshot away.
PushUndoKeepOldest(stack, snapshot) ==
    IF Len(stack) >= maxHistory THEN stack ELSE Append(stack, snapshot)

\* pushHistory on the undo stack: append, drop the oldest above maxHistory.
PushUndo(stack, snapshot) ==
    LET pushed == Append(stack, snapshot)
    IN IF Len(pushed) > maxHistory THEN Tail(pushed) ELSE pushed

\* A stack read from the wrong end.
TopOldest(stack) == stack[1]

\* Array.pop(): the last element and the rest.
Top(stack) == stack[Len(stack)]

Pop(stack) == SubSeq(stack, 1, Len(stack) - 1)

\* ------------------------------------------------------------------------
\* addVoxel / removeVoxel
\* ------------------------------------------------------------------------

\* addOne without its occupancy test.
AddOneUnchecked(vs, x, y, z, hex, material, held) ==
    Append(vs, NewVoxel(FreshId(IdsOf(vs) \cup held), x, y, z, hex, material))

\* addOne of addVoxel: push unless the cell is occupied.
AddOne(vs, x, y, z, hex, material, held) ==
    IF SomeAt(vs, x, y, z) THEN vs
    ELSE Append(vs, NewVoxel(FreshId(IdsOf(vs) \cup held), x, y, z, hex,
                             material))

\* addVoxel without its capacity guard.
AddRejectedNoCap(vs, x, y, z) == SomeAt(vs, x, y, z)

\* The two guards of addVoxel.
AddRejected(vs, x, y, z) == Len(vs) >= MAX_VOXELS \/ SomeAt(vs, x, y, z)

\* addVoxel without its mirror branch.
AddVoxelsNoMirror(vs, x, y, z, hex, material, mirror, held) ==
    AddOne(vs, x, y, z, hex, material, held)

\* The voxel list addVoxel leaves when it is not rejected.
AddVoxels(vs, x, y, z, hex, material, mirror, held) ==
    LET one == AddOne(vs, x, y, z, hex, material, held)
    IN IF mirror THEN AddOne(one, -x, y, z, hex, material, held) ELSE one

\* deleteAt of removeVoxel.
DeleteAt(vs, x, y, z) ==
    LET idx == FindIndexAt(vs, x, y, z)
    IN IF idx # 0 THEN RemoveIndex(vs, idx) ELSE vs

\* The voxel list removeVoxel leaves for the picked voxel vs[k].
RemoveVoxels(vs, k, mirror) ==
    LET one == DeleteAt(vs, vs[k].x, vs[k].y, vs[k].z)
    IN IF mirror THEN DeleteAt(one, -vs[k].x, vs[k].y, vs[k].z) ELSE one

\* ------------------------------------------------------------------------
\* paintFill
\* ------------------------------------------------------------------------

\* voxelMap.get(key): the map is filled in list order, so the last voxel at
\* a position is the one it holds; 0 when the key is absent.
MapIndex(vs, p) ==
    IF SomeAt(vs, p[1], p[2], p[3])
    THEN CHOOSE i \in 1..Len(vs) :
            /\ vs[i].x = p[1] /\ vs[i].y = p[2] /\ vs[i].z = p[3]
            /\ \A j \in (i + 1)..Len(vs) :
                  ~(vs[j].x = p[1] /\ vs[j].y = p[2] /\ vs[j].z = p[3])
    ELSE 0

\* The six neighbours, in the order of the source.
Neighbors(p) ==
    << << p[1] + Scale, p[2], p[3] >>, << p[1] - Scale, p[2], p[3] >>,
       << p[1], p[2] + Scale, p[3] >>, << p[1], p[2] - Scale, p[3] >>,
       << p[1], p[2], p[3] + Scale >>, << p[1], p[2], p[3] - Scale >> >>

\* The while loop of paintFill: the voxel list when the queue has run empty.
RECURSIVE FillLoop(_, _, _, _, _, _, _)
FillLoop(vs, queue, visited, targetHex, targetMat, fillHex, fillMat) ==
    IF queue = << >> THEN vs
    ELSE LET p == Head(queue)
             i == MapIndex(vs, p)
         IN IF /\ i # 0
               /\ GetHex(vs[i].color) = targetHex
               /\ vs[i].material = targetMat
            THEN LET painted == [vs EXCEPT ![i].color = Color(fillHex),
                                           ![i].material = fillMat]
                     next == SelectSeq(Neighbors(p),
                                 LAMBDA q : q \notin visited
                                            /\ MapIndex(vs, q) # 0)
                 IN FillLoop(painted, Tail(queue) \o next,
                             visited \cup {next[j] : j \in 1..Len(next)},
                             targetHex, targetMat, fillHex, fillMat)
            ELSE FillLoop(vs, Tail(queue), visited,
                          targetHex, targetMat, fillHex, fillMat)

\* A paintFill that goes on when the start voxel already has the fill.
FillSkippedNoStartOnly(vs, x, y, z, fillHex, fillMat) ==
    FindIndexAt(vs, x, y, z) = 0

\* paintFill returns early: no start voxel, or it already has the fill.
FillSkipped(vs, x, y, z, fillHex, fillMat) ==
    LET s == FindIndexAt(vs, x, y, z)
    IN s = 0 \/ (GetHex(vs[s].color) = fillHex /\ vs[s].material = fillMat)

\* The voxel list paintFill leaves when it does not return early.
PaintFill(vs, x, y, z, fillHex, fillMat) ==
    LET s == FindIndexAt(vs, x, y, z)
    IN FillLoop(vs, << << x, y, z >> >>, {<< x, y, z >>},
                GetHex(vs[s].color), vs[s].material, fillHex, fillMat)

\* ------------------------------------------------------------------------
\* Selection and group manipulation
\* ------------------------------------------------------------------------

\* Box3 of the selection mesh as updateSelectionBox shapes it from the two
\* floor points (<<x, z>>) of a drag: fixed height 10 around the floor.
DragBox(start, end) ==
    LET w == IF Abs(start[1] - end[1]) = 0 THEN Scale \div 10
             ELSE Abs(start[1] - end[1])
        d == IF Abs(start[2] - end[2]) = 0 THEN Scale \div 10
             ELSE Abs(start[2] - end[2])
        cx2 == start[1] + end[1]
        cz2 == start[2] + end[2]
    IN [x0 |-> (cx2 - w) \div 2, x1 |-> (cx2 + w) \div 2,
        y0 |-> FLOOR_Y - 5 * Scale, y1 |-> FLOOR_Y + 5 * Scale,
        z0 |-> (cz2 - d) \div 2, z1 |-> (cz2 + d) \div 2]

\* The selection mesh as initOverlays leaves it: the unit cube at the origin.
UnitBox ==
    [x0 |-> -(Scale \div 2), x1 |-> Scale \div 2,
     y0 |-> -(Scale \div 2), y1 |-> Scale \div 2,
     z0 |-> -(Scale \div 2), z1 |-> Scale \div 2]

\* box.containsPoint(v)
ContainsPoint(box, v) ==
    /\ box.x0 <= v.x /\ v.x <= box.x1
    /\ box.y0 <= v.y /\ v.y <= box.y1
    /\ box.z0 <= v.z /\ v.z <= box.z1

\* finishSelection: the ids of the voxels inside the box.
SelectIn(vs, box) ==
    {vs[i].id : i \in {j \in 1..Len(vs) : ContainsPoint(box, vs[j])}}

\* Indices of the voxels whose id is selected.
SelectedIdx(vs, sel) == {i \in 1..Len(vs) : vs[i].id \in sel}

\* deleteSelected: voxels.filter(v => !selected.has(v.id))
DeleteSelectedVoxels(vs, sel) ==
    FilterSeq(vs, (1..Len(vs)) \ SelectedIdx(vs, sel))

\* copySelected: the selected voxels again, one cell further on x, new ids.
CopySelectedVoxels(vs, sel) ==
    LET selected == FilterSeq(vs, SelectedIdx(vs, sel))
        ids == FreshIds(IdsOf(vs) \cup sel, Len(selected))
        copies == [i \in 1..Len(selected) |->
                     [selected[i] EXCEPT !.id = ids[i], !.x = @ + Scale]]
    IN vs \o copies

\* moveSelected: v[axis] += dir on every selected voxel.
MoveSelectedVoxels(vs, sel, axis, dir) ==
    [i \in 1..Len(vs) |->
        IF vs[i].id \in sel
        THEN CASE axis = "x" -> [vs[i] EXCEPT !.x = @ + dir * Scale]
               [] axis = "y" -> [vs[i] EXCEPT !.y = @ + dir * Scale]
               [] axis = "z" -> [vs[i] EXCEPT !.z = @ + dir * Scale]
        ELSE vs[i]]

\* ------------------------------------------------------------------------
\* rebuild: cloning and the greedy colour/material matching
\* ------------------------------------------------------------------------

\* Squared colour distance of two THREE.Color, in units of (1/255)^2.
Dist2(c1, c2) ==
    (c1[1] - c2[1]) * (c1[1] - c2[1]) + (c1[2] - c2[2]) * (c1[2] - c2[2])
    + (c1[3] - c2[3]) * (c1[3] - c2[3])

\* The material penalty 0.4 in units of 1/255.
PENALTY == 102

\* available[i].mat === target.material ? 0 : 0.4 (an absent material is
\* undefined and equals no material).
MatPenalty(mat, targetMaterial) == IF mat = targetMaterial THEN 0 ELSE PENALTY

\* sqrt(a) > n / d and sqrt(a) < n / d for naturals a, n and d > 0, decided
\* without taking roots (and without leaving 32 bits).
RootAbove(a, n, d) ==
    LET q == n \div d
        r == n % d
    IN \/ a >= (q + 1) * (q + 1)
       \/ a > q * q /\ (a - q * q) * d * d > 2 * q * r * d + r * r

RootBelow(a, n, d) ==
    LET q == n \div d
        r == n % d
    IN \/ a < q * q
       \/ a = q * q /\ r > 0
       \/ /\ a > q * q
          /\ a < (q + 1) * (q + 1)
          /\ (a - q * q) * d * d < 2 * q * r * d + r * r

\* score(a, p) < score(b, q), the score being sqrt(a) + p for a squared
\* colour distance a and a penalty p, both in {0, PENALTY}.
ScoreLess(a, p, b, q) ==
    LET pp == PENALTY * PENALTY
    IN CASE p = q -> a < b
         [] p < q -> \/ a < pp
                     \/ (a = pp /\ b > 0)
                     \/ (a > pp /\ (a + pp - b < 0
                                    \/ RootAbove(a, a + pp - b, 2 * PENALTY)))
         [] p > q -> /\ b > pp
                     /\ b + pp - a > 0
                     /\ RootBelow(b, b + pp - a, 2 * PENALTY)

\* An inner loop that replaces its best on equal scores too: the last
\* untaken source with the least score.
BestIdxLastOnTies(vs, taken, target) ==
    LET free == (1..Len(vs)) \ taken
        tc == Color(target.color)
        less(i, j) == ScoreLess(Dist2(vs[i].color, tc),
                                MatPenalty(vs[i].material, target.material),
                                Dist2(vs[j].color, tc),
                                MatPenalty(vs[j].material, target.material))
    IN IF free = {} THEN 0
       ELSE CHOOSE i \in free :
               /\ \A j \in free : j > i => less(i, j)
               /\ \A j \in free : j < i => ~less(j, i)

\* The inner for loop of rebuild: the first untaken source with the least
\* score for this target, 0 when every source is taken.
BestIdx(vs, taken, target) ==
    LET free == (1..Len(vs)) \ taken
        tc == Color(target.color)
        less(i, j) == ScoreLess(Dist2(vs[i].color, tc),
                                MatPenalty(vs[i].material, target.material),
                                Dist2(vs[j].color, tc),
                                MatPenalty(vs[j].material, target.material))
    IN IF free = {} THEN 0
       ELSE CHOOSE i \in free :
               /\ \A j \in free : j < i => less(i, j)
               /\ \A j \in free : j > i => ~less(j, i)

\* delay = max(0, (target.y - FLOOR_Y) / 15) * 600 milliseconds, kept times
\* Scale so that it stays an integer.
DelayOf(y) == Max(0, y - FLOOR_Y) * 40

\* The RebuildTarget of a matched voxel.
MatchedTarget(target) ==
    [x |-> target.x, y |-> target.y, z |-> target.z,
     material |-> OrMatte(target.material), delay |-> DelayOf(target.y),
     isRubble |-> FALSE]

\* The RebuildTarget of a voxel no target took.
RubbleTarget(v) ==
    [x |-> v.x, y |-> v.y, z |-> v.z, material |-> v.material, delay |-> 0,
     isRubble |-> TRUE]

\* targetVoxels.forEach: the map source index -> target index after the
\* targets from position k on have taken their best source.
RECURSIVE Assign(_, _, _, _)
Assign(vs, targets, k, owner) ==
    IF k > Len(targets) THEN owner
    ELSE LET best == BestIdx(vs, DOMAIN owner, targets[k])
         IN IF best = 0 THEN Assign(vs, targets, k + 1, owner)
            ELSE Assign(vs, targets, k + 1, owner @@ (best :> k))

\* The mappings array of rebuild.
Mappings(vs, targets) ==
    LET owner == Assign(vs, targets, 1, << >>)
    IN [i \in 1..Len(vs) |->
          IF i \in DOMAIN owner THEN MatchedTarget(targets[owner[i]])
          ELSE RubbleTarget(vs[i])]

\* The placeholder voxel rebuild starts from when the field is empty.
Placeholder == NewVoxel(-1, 0, FLOOR_Y + 5 * Scale, 0, WHITE, MATTE)

\* rebuild without its cloning loop.
SourceVoxelsNoClone(vs, targetLen, picks, held) ==
    IF Len(vs) = 0 THEN << Placeholder >> ELSE vs

\* sourceVoxels of rebuild: the field (or the placeholder), then one clone
\* per pick until there are as many sources as targets. picks[j] is the
\* index Math.random() draws for the j-th clone (a clone of a clone equals a
\* clone of the original but for its id, so indices of originals suffice).
SourceVoxels(vs, targetLen, picks, held) ==
    LET base == IF Len(vs) = 0 THEN << Placeholder >> ELSE vs
        n == Max(0, targetLen - Len(base))
        ids == FreshIds(IdsOf(base) \cup held, n)
        RECURSIVE grow(_, _)
        grow(src, j) ==
            IF j > n THEN src
            ELSE grow(Append(src, [src[picks[j]] EXCEPT !.id = ids[j]]), j + 1)
    IN grow(base, 1)

\* ------------------------------------------------------------------------
\* dismantle and updatePhysics
\* ------------------------------------------------------------------------

\* dismantle on one voxel: the six Math.random() draws are the kick.
Kicked(v, kick) ==
    [v EXCEPT !.vx = kick.vx, !.vy = kick.vy, !.vz = kick.vz,
              !.rvx = kick.rvx, !.rvy = kick.rvy, !.rvz = kick.rvz]

\* One DISMANTLING frame of one voxel: gravity, Euler step, floor bounce.
FallStep(v) ==
    LET vy1 == v.vy - GRAVITY
        y1 == v.y + vy1
        hit == y1 < FloorRest
    IN [v EXCEPT !.x = v.x + v.vx,
                 !.y = IF hit THEN FloorRest ELSE y1,
                 !.z = v.z + v.vz,
                 !.rx = v.rx + v.rvx, !.ry = v.ry + v.rvy,
                 !.rz = v.rz + v.rvz,
                 !.vy = IF hit THEN Times(vy1, -BOUNCE, 100) ELSE vy1,
                 !.vx = IF hit THEN Times(v.vx, DAMPING, 100) ELSE v.vx,
                 !.vz = IF hit THEN Times(v.vz, DAMPING, 100) ELSE v.vz]

\* One REBUILDING frame of a rubble voxel: it falls and stops on the floor.
RubbleStep(v) ==
    LET vy1 == v.vy - GRAVITY
        y1 == v.y + vy1
        hit == y1 < FloorRest
    IN [v EXCEPT !.y = IF hit THEN FloorRest ELSE y1,
                 !.vy = IF hit THEN 0 ELSE vy1]

\* value += (target - value) * MORPH_SPEED
Lerp(value, target) == value + Times(target - value, MORPH_SPEED, 100)

\* An arrival test no voxel passes.
ArrivedExactly(v, t) ==
    Abs(t.x - v.x) + Abs(t.y - v.y) + Abs(t.z - v.z) < 0

\* The arrival test of a matched voxel after its step.
Arrived(v, t) ==
    Abs(t.x - v.x) + Abs(t.y - v.y) + Abs(t.z - v.z) <= ARRIVE_EPS

\* A frame of a matched voxel that snaps the position on arrival and
\* leaves the rotation as it is.
MorphStepKeepRotation(v, t) ==
    LET moved == [v EXCEPT !.x = Lerp(v.x, t.x), !.y = Lerp(v.y, t.y),
                           !.z = Lerp(v.z, t.z)]
    IN IF Arrived(moved, t)
       THEN [moved EXCEPT !.x = t.x, !.y = t.y, !.z = t.z]
       ELSE moved

\* One REBUILDING frame of a matched voxel whose delay has elapsed.
MorphStep(v, t) ==
    LET moved == [v EXCEPT !.x = Lerp(v.x, t.x), !.y = Lerp(v.y, t.y),
                           !.z = Lerp(v.z, t.z)]
    IN IF Arrived(moved, t)
       THEN [moved EXCEPT !.x = t.x, !.y = t.y, !.z = t.z,
                          !.rx = 0, !.ry = 0, !.rz = 0]
       ELSE moved

\* elapsed < t.delay (the delay is kept times Scale).
Waiting(elapsed, t) == elapsed * Scale < t.delay

\* A REBUILDING frame that moves a matched voxel whatever its delay.
RebuildStepNoDelay(vs, targets, i, elapsed) ==
    IF i > Len(targets) THEN vs[i]
    ELSE IF targets[i].isRubble THEN RubbleStep(vs[i])
    ELSE MorphStep(vs[i], targets[i])

\* One REBUILDING frame of voxel i.
RebuildStep(vs, targets, i, elapsed) ==
    IF i > Len(targets) THEN vs[i]
    ELSE IF targets[i].isRubble THEN RubbleStep(vs[i])
    ELSE IF Waiting(elapsed, targets[i]) THEN vs[i]
    ELSE MorphStep(vs[i], targets[i])

\* Does voxel i leave allDone true in this frame?
StepDone(vs, targets, i, elapsed) ==
    \/ i > Len(targets)
    \/ targets[i].isRubble
    \/ /\ ~Waiting(elapsed, targets[i])
       /\ Arrived(MorphStep(vs[i], targets[i]), targets[i])

\* allDone of updatePhysics after the forEach.
AllDone(vs, targets, elapsed) ==
    \A i \in 1..Len(vs) : StepDone(vs, targets, i, elapsed)

\* ------------------------------------------------------------------------
\* Inputs the environment draws from
\* ------------------------------------------------------------------------

\* Grid cells a pointer gesture can address (Math.round of the picked point).
GridX == {-1, 0, 1}

GridY == {-11, -10}

GridZ == {0}

\* (colour, material) pairs the palette of the UI hands to setBuildProps.
BuildProps == {<< BLUE, MATTE >>, << WHITE, METAL >>}

\* Floor points (<<x, z>>) a selection drag starts or ends at.
FloorPoints ==
    {<< -3 * (Scale \div 2), -(Scale \div 2) >>,
     << Scale \div 2, Scale \div 2 >>}

\* Voxel arrays handed to loadInitialModel: none, two voxels of different
\* colour and material, and an L of three blue ones, one of them without a
\* material field.
Models ==
    << << >>,
       << VoxelData(0, -11 * Scale, 0, BLUE, MATTE),
          VoxelData(Scale, -11 * Scale, 0, WHITE, METAL) >>,
       << VoxelData(0, -11 * Scale, 0, BLUE, MATTE),
          VoxelData(-Scale, -11 * Scale, 0, BLUE, NoMaterial),
          VoxelData(0, -10 * Scale, 0, BLUE, MATTE) >> >>

\* Voxel arrays handed to rebuild: none, one voxel, and three voxels of
\* which the first has no material field.
Targets ==
    << << >>,
       << VoxelData(Scale, -11 * Scale, 0, WHITE, METAL) >>,
       << VoxelData(0, -11 * Scale, 0, BLUE, NoMaterial),
          VoxelData(0, -10 * Scale, 0, WHITE, MATTE),
          VoxelData(-Scale, -11 * Scale, 0, BLUE, METAL) >> >>

\* Fields the solver of rebuild is run on: voxels of one colour that differ
\* in material, in both orders, and a single voxel above the floor row.
MatchModels ==
    << << VoxelData(0, -11 * Scale, 0, BLUE, METAL),
          VoxelData(Scale, -11 * Scale, 0, BLUE, MATTE) >>,
       << VoxelData(0, -11 * Scale, 0, WHITE, GLOW),
          VoxelData(Scale, -11 * Scale, 0, BLUE, GLOW),
          VoxelData(-Scale, -11 * Scale, 0, WHITE, MATTE) >>,
       << VoxelData(0, -10 * Scale, 0, BLUE, MATTE) >> >>

\* Outcomes of the six Math.random() draws of dismantle for one voxel.
Kicks ==
    {[vx |-> 90, vy |-> 0, vz |-> 0, rvx |-> 100, rvy |-> 0, rvz |-> -50],
     [vx |-> -180, vy |-> 70, vz |-> 45, rvx |-> -100, rvy |-> 30, rvz |-> 0]}

\* Milliseconds between two animation frames.
FrameMs == {16}

\* ------------------------------------------------------------------------
\* State
\* ------------------------------------------------------------------------

VARIABLES
    voxels,              \* this.voxels
    undoStack,           \* this.undoStack
    redoStack,           \* this.redoStack
    rebuildTargets,      \* this.rebuildTargets
    rebuildStartTime,    \* this.rebuildStartTime
    now,                 \* Date.now(), counted from the last rebuild
    state,               \* this.state
    mode,                \* this.mode
    buildTool,           \* this.buildTool
    selectedProps,       \* <<this.selectedColor, this.selectedMaterial>>
    isMirrorMode,        \* this.isMirrorMode
    isSelecting,         \* this.isSelecting
    selectionStartPoint, \* this.selectionStartPoint while a drag is open
    selectionBox,        \* Box3 of this.selectionMesh
    selectedVoxelIds,    \* this.selectedVoxelIds
    historySeen,         \* <<canUndo, canRedo>> of the last onHistoryChange
    stateSeen,           \* the state of the last onStateChange
    budget,              \* handler calls the environment may still make
    lastOp,              \* the handler that ran last, with its arguments
    probe                \* the persisted lists around the last pushing call

engine == << voxels, undoStack, redoStack, rebuildTargets, rebuildStartTime,
             now, state, mode, buildTool, selectedProps, isMirrorMode,
             isSelecting, selectionStartPoint, selectionBox,
             selectedVoxelIds >>

\* What the UI holds from the two callbacks.
seen == << historySeen, stateSeen >>

vars == << engine, seen, budget, lastOp, probe >>

NoPoint == << >>

\* ------------------------------------------------------------------------
\* Observation of the last call
\* ------------------------------------------------------------------------

Op(name, arg) == [name |-> name, arg |-> arg]

\* A handler call: the environment makes at most MaxCalls of them in a run
\* (animation frames are not counted).
Called(name, arg) ==
    /\ budget > 0
    /\ budget' = budget - 1
    /\ lastOp' = Op(name, arg)

ProbeIdle == [phase |-> 0, before |-> << >>, after |-> << >>]

\* A call that pushed a snapshot in STABLE: phase 1 with the persisted list
\* before and after it; then undo makes it 2 and redo 3. A call that pushed
\* a snapshot in another state: phase 4.
ProbePush(before, after) ==
    IF state = STABLE
    THEN [phase |-> 1, before |-> before, after |-> after]
    ELSE [ProbeIdle EXCEPT !.phase = 4]

ProbeUndo == IF probe.phase = 1 THEN [probe EXCEPT !.phase = 2] ELSE ProbeIdle

ProbeRedo == IF probe.phase = 2 THEN [probe EXCEPT !.phase = 3] ELSE ProbeIdle

\* ------------------------------------------------------------------------
\* Init: a scene
\* ------------------------------------------------------------------------

\* The engine after its constructor and the calls that set a scene up:
\* loadInitialModel(model), setMode, setTool, setBuildProps, setMirrorMode
\* and, with the select tool in BUILD mode, one drag from p to q.
Scene(model, md, tool, props, mirror, p, q) ==
    /\ voxels = FromData(model)
    /\ undoStack = << >>
    /\ redoStack = << >>
    /\ rebuildTargets = << >>
    /\ rebuildStartTime = 0
    /\ now = 0
    /\ state = STABLE
    /\ mode = md
    /\ buildTool = tool
    /\ selectedProps = props
    /\ isMirrorMode = mirror
    /\ isSelecting = FALSE
    /\ selectionStartPoint = NoPoint
    /\ selectionBox = IF md = BUILD /\ tool = "select"
                      THEN DragBox(p, q) ELSE UnitBox
    /\ selectedVoxelIds = IF md = BUILD /\ tool = "select"
                          THEN SelectIn(FromData(model), DragBox(p, q))
                          ELSE {}
    /\ historySeen = << FALSE, FALSE >>
    /\ stateSeen = STABLE
    /\ lastOp = Op("new", << >>)
    /\ probe = ProbeIdle

Scenes ==
    \E m \in 1..Len(Models), md \in {VIEW, BUILD}, tool \in BuildTools,
          props \in BuildProps, mirror \in BOOLEAN,
          p \in FloorPoints, q \in FloorPoints :
          Scene(Models[m], md, tool, props, mirror, p, q)

Init == Scenes /\ budget = MaxCalls

\* The scenes in VIEW mode, the build settings as the constructor set them.
InitView ==
    /\ Scenes
    /\ budget = MaxViewCalls
    /\ mode = VIEW
    /\ buildTool = "pencil"
    /\ selectedProps = << BLUE, MATTE >>
    /\ isMirrorMode = FALSE

\* The same scenes with the call budget of the runs around one rebuild.
InitUndo ==
    /\ Scenes
    /\ budget = MaxUndoCalls
    /\ mode = VIEW
    /\ buildTool = "pencil"
    /\ selectedProps = << BLUE, MATTE >>
    /\ isMirrorMode = FALSE

\* The scenes of either mode with the build settings of the constructor.
InitGuard ==
    /\ Scenes
    /\ budget = MaxViewCalls
    /\ buildTool = "pencil"
    /\ selectedProps = << BLUE, MATTE >>
    /\ isMirrorMode = FALSE

\* The scenes in BUILD mode with the pencil.
InitPlace ==
    /\ Scenes
    /\ mode = BUILD
    /\ buildTool = "pencil"
    /\ budget = MaxPlaceCalls

\* notifyHistory(): the arguments onHistoryChange receives.
CanUndoRedo(undo, redo) == << undo # << >>, redo # << >> >>

\* ------------------------------------------------------------------------
\* Handlers
\* ------------------------------------------------------------------------

\* A restore that leaves the transition state alone.
LoadSnapshotKeepState(data) ==
    /\ voxels' = FromData(data)
    /\ state' = state
    /\ stateSeen' = state

\* loadSnapshot(data) without the stacks: field from data, state STABLE.
LoadSnapshot(data) ==
    /\ voxels' = FromData(data)
    /\ state' = STABLE
    /\ stateSeen' = STABLE

\* A loadInitialModel(data) that leaves the two stacks as they are.
LoadInitialModelKeepHistory ==
    \E m \in 1..Len(Models) :
        /\ LoadSnapshot(Models[m])
        /\ Called("loadInitialModel", << m >>)
        /\ probe' = ProbeIdle
        /\ historySeen' = CanUndoRedo(undoStack, redoStack)
        /\ UNCHANGED << undoStack, redoStack, rebuildTargets,
                        rebuildStartTime, now, mode, buildTool,
                        selectedProps, isMirrorMode, isSelecting,
                        selectionStartPoint, selectionBox, selectedVoxelIds >>

\* loadInitialModel(data)
LoadInitialModel ==
    \E m \in 1..Len(Models) :
        /\ undoStack' = << >>
        /\ redoStack' = << >>
        /\ LoadSnapshot(Models[m])
        /\ Called("loadInitialModel", << m >>)
        /\ probe' = ProbeIdle
        /\ historySeen' = CanUndoRedo(undoStack', redoStack')
        /\ UNCHANGED << rebuildTargets, rebuildStartTime, now, mode,
                        buildTool, selectedProps, isMirrorMode, isSelecting,
                        selectionStartPoint, selectionBox, selectedVoxelIds >>

\* An undo() that reloads the current list when its stack is empty.
UndoReload ==
    /\ Called("undo", << >>)
    /\ probe' = ProbeIdle
    /\ IF undoStack = << >>
       THEN /\ LoadSnapshot(getVoxelData(voxels))
            /\ UNCHANGED << undoStack, redoStack >>
       ELSE /\ redoStack' = Append(redoStack, getVoxelData(voxels))
            /\ LoadSnapshot(Top(undoStack))
            /\ undoStack' = Pop(undoStack)
    /\ historySeen' = CanUndoRedo(undoStack', redoStack')
    /\ UNCHANGED << rebuildTargets, rebuildStartTime, now, mode, buildTool,
                    selectedProps, isMirrorMode, isSelecting,
                    selectionStartPoint, selectionBox, selectedVoxelIds >>

\* undo()
Undo ==
    /\ Called("undo", << >>)
    /\ IF undoStack = << >>
       THEN /\ probe' = ProbeIdle
            /\ UNCHANGED << engine, seen >>
       ELSE /\ redoStack' = Append(redoStack, getVoxelData(voxels))
            /\ LoadSnapshot(Top(undoStack))
            /\ undoStack' = Pop(undoStack)
            /\ probe' = ProbeUndo
            /\ historySeen' = CanUndoRedo(undoStack', redoStack')
            /\ UNCHANGED << rebuildTargets, rebuildStartTime, now, mode,
                            buildTool, selectedProps, isMirrorMode,
                            isSelecting, selectionStartPoint, selectionBox,
                            selectedVoxelIds >>

\* A redo() that leaves the snapshot it restores on the redo stack.
RedoKeepsSnapshot ==
    /\ Called("redo", << >>)
    /\ IF redoStack = << >>
       THEN /\ probe' = ProbeIdle
            /\ UNCHANGED << engine, seen >>
       ELSE /\ undoStack' = Append(undoStack, getVoxelData(voxels))
            /\ LoadSnapshot(Top(redoStack))
            /\ probe' = ProbeRedo
            /\ historySeen' = CanUndoRedo(undoStack', redoStack)
            /\ UNCHANGED << redoStack, rebuildTargets, rebuildStartTime, now,
                            mode, buildTool, selectedProps, isMirrorMode,
                            isSelecting, selectionStartPoint, selectionBox,
                            selectedVoxelIds >>

\* redo()
Redo ==
    /\ Called("redo", << >>)
    /\ IF redoStack = << >>
       THEN /\ probe' = ProbeIdle
            /\ UNCHANGED << engine, seen >>
       ELSE /\ undoStack' = Append(undoStack, getVoxelData(voxels))
            /\ LoadSnapshot(Top(redoStack))
            /\ redoStack' = Pop(redoStack)
            /\ probe' = ProbeRedo
            /\ historySeen' = CanUndoRedo(undoStack', redoStack')
            /\ UNCHANGED << rebuildTargets, rebuildStartTime, now, mode,
                            buildTool, selectedProps, isMirrorMode,
                            isSelecting, selectionStartPoint, selectionBox,
                            selectedVoxelIds >>

\* A pushHistory() that does not call notifyHistory().
MutateUnnotified(vs) ==
    /\ undoStack' = PushUndo(undoStack, getVoxelData(voxels))
    /\ redoStack' = << >>
    /\ voxels' = vs
    /\ historySeen' = historySeen
    /\ probe' = ProbePush(getVoxelData(voxels), getVoxelData(vs))

\* A pushHistory() that keeps the redo stack.
MutateKeepRedo(vs) ==
    /\ undoStack' = PushUndo(undoStack, getVoxelData(voxels))
    /\ redoStack' = redoStack
    /\ voxels' = vs
    /\ historySeen' = CanUndoRedo(undoStack', redoStack')
    /\ probe' = ProbePush(getVoxelData(voxels), getVoxelData(vs))

\* A handler that calls pushHistory() and leaves the voxel list vs.
Mutate(vs) ==
    /\ undoStack' = PushUndo(undoStack, getVoxelData(voxels))
    /\ redoStack' = << >>
    /\ voxels' = vs
    /\ historySeen' = CanUndoRedo(undoStack', redoStack')
    /\ probe' = ProbePush(getVoxelData(voxels), getVoxelData(vs))

\* setMode(mode)
SetMode ==
    \E m \in {VIEW, BUILD} :
        /\ mode' = m
        /\ selectedVoxelIds' = IF m # BUILD THEN {} ELSE selectedVoxelIds
        /\ Called("setMode", << >>)
        /\ probe' = ProbeIdle
        /\ UNCHANGED seen
        /\ UNCHANGED << voxels, undoStack, redoStack, rebuildTargets,
                        rebuildStartTime, now, state, buildTool,
                        selectedProps, isMirrorMode, isSelecting,
                        selectionStartPoint, selectionBox >>

\* A setTool(tool) that keeps the selection.
SetToolKeepSelection ==
    \E t \in BuildTools :
        /\ buildTool' = t
        /\ Called("setTool", << >>)
        /\ probe' = ProbeIdle
        /\ UNCHANGED seen
        /\ UNCHANGED << voxels, undoStack, redoStack, rebuildTargets,
                        rebuildStartTime, now, state, mode, selectedProps,
                        isMirrorMode, isSelecting, selectionStartPoint,
                        selectionBox, selectedVoxelIds >>

\* setTool(tool)
SetTool ==
    \E t \in BuildTools :
        /\ buildTool' = t
        /\ selectedVoxelIds' = {}
        /\ Called("setTool", << >>)
        /\ probe' = ProbeIdle
        /\ UNCHANGED seen
        /\ UNCHANGED << voxels, undoStack, redoStack, rebuildTargets,
                        rebuildStartTime, now, state, mode, selectedProps,
                        isMirrorMode, isSelecting, selectionStartPoint,
                        selectionBox >>

\* setMirrorMode(enabled)
SetMirrorMode ==
    \E b \in BOOLEAN :
        /\ isMirrorMode' = b
        /\ Called("setMirrorMode", << >>)
        /\ probe' = ProbeIdle
        /\ UNCHANGED seen
        /\ UNCHANGED << voxels, undoStack, redoStack, rebuildTargets,
                        rebuildStartTime, now, state, mode, buildTool,
                        selectedProps, isSelecting, selectionStartPoint,
                        selectionBox, selectedVoxelIds >>

\* setBuildProps(hex, mat)
SetBuildProps ==
    \E pr \in BuildProps :
        /\ selectedProps' = pr
        /\ Called("setBuildProps", << >>)
        /\ probe' = ProbeIdle
        /\ UNCHANGED seen
        /\ UNCHANGED << voxels, undoStack, redoStack, rebuildTargets,
                        rebuildStartTime, now, state, mode, buildTool,
                        isMirrorMode, isSelecting, selectionStartPoint,
                        selectionBox, selectedVoxelIds >>

\* The guard every branch of onMouseDown stands behind (left button).
MouseDownLive == mode = BUILD /\ state = STABLE

\* addVoxel(x, y, z, color, material)
AddVoxel(x, y, z, hex, material) ==
    IF AddRejected(voxels, x, y, z)
    THEN /\ probe' = ProbeIdle
         /\ UNCHANGED << voxels, undoStack, redoStack, historySeen >>
    ELSE Mutate(AddVoxels(voxels, x, y, z, hex, material, isMirrorMode,
                          selectedVoxelIds))

\* onMouseDown with the pencil: the place operation.
Place ==
    /\ MouseDownLive
    /\ buildTool = "pencil"
    /\ \E x \in GridX, y \in GridY, z \in GridZ :
          /\ AddVoxel(x * Scale, y * Scale, z * Scale,
                      selectedProps[1], selectedProps[2])
          /\ Called("place", << x * Scale, y * Scale, z * Scale >>)
    /\ UNCHANGED stateSeen
    /\ UNCHANGED << rebuildTargets, rebuildStartTime, now, state, mode,
                    buildTool, selectedProps, isMirrorMode, isSelecting,
                    selectionStartPoint, selectionBox, selectedVoxelIds >>

\* onMouseDown with the eraser on the voxel vs[k]: removeVoxel.
Erase ==
    /\ MouseDownLive
    /\ buildTool = "eraser"
    /\ \E k \in 1..Len(voxels) :
          /\ Mutate(RemoveVoxels(voxels, k, isMirrorMode))
          /\ Called("erase", << voxels[k].x, voxels[k].y, voxels[k].z, k >>)
    /\ UNCHANGED stateSeen
    /\ UNCHANGED << rebuildTargets, rebuildStartTime, now, state, mode,
                    buildTool, selectedProps, isMirrorMode, isSelecting,
                    selectionStartPoint, selectionBox, selectedVoxelIds >>

\* onMouseDown with the picker: onColorPick, which App wires to setBuildProps.
Pick ==
    /\ MouseDownLive
    /\ buildTool = "picker"
    /\ \E k \in 1..Len(voxels) :
          selectedProps' = << GetHex(voxels[k].color), voxels[k].material >>
    /\ Called("pick", << >>)
    /\ probe' = ProbeIdle
    /\ UNCHANGED seen
    /\ UNCHANGED << voxels, undoStack, redoStack, rebuildTargets,
                    rebuildStartTime, now, state, mode, buildTool,
                    isMirrorMode, isSelecting, selectionStartPoint,
                    selectionBox, selectedVoxelIds >>

\* onMouseDown with the paint bucket on the voxel vs[k]: paintFill.
PaintBucket ==
    /\ MouseDownLive
    /\ buildTool = "paintBucket"
    /\ \E k \in 1..Len(voxels) :
          LET x == voxels[k].x
              y == voxels[k].y
              z == voxels[k].z
          IN /\ IF FillSkipped(voxels, x, y, z,
                               selectedProps[1], selectedProps[2])
                THEN /\ probe' = ProbeIdle
                     /\ UNCHANGED << voxels, undoStack, redoStack, historySeen >>
                ELSE Mutate(PaintFill(voxels, x, y, z,
                                      selectedProps[1], selectedProps[2]))
             /\ Called("paintBucket", << x, y, z, k >>)
    /\ UNCHANGED stateSeen
    /\ UNCHANGED << rebuildTargets, rebuildStartTime, now, state, mode,
                    buildTool, selectedProps, isMirrorMode, isSelecting,
                    selectionStartPoint, selectionBox, selectedVoxelIds >>

\* onMouseDown with the select tool, the ray hitting the floor at p:
\* a drag opens and clearSelection() runs.
SelectDown ==
    /\ MouseDownLive
    /\ buildTool = "select"
    /\ \E p \in FloorPoints : selectionStartPoint' = p
    /\ isSelecting' = TRUE
    /\ selectedVoxelIds' = {}
    /\ Called("selectDown", << >>)
    /\ probe' = ProbeIdle
    /\ UNCHANGED seen
    /\ UNCHANGED << voxels, undoStack, redoStack, rebuildTargets,
                    rebuildStartTime, now, state, mode, buildTool,
                    selectedProps, isMirrorMode, selectionBox >>

\* onMouseMove during a drag, the ray hitting the floor at p:
\* updateSelectionBox(start, p).
SelectMove ==
    /\ mode = BUILD
    /\ isSelecting
    /\ selectionStartPoint # NoPoint
    /\ \E p \in FloorPoints :
          selectionBox' = DragBox(selectionStartPoint, p)
    /\ Called("selectMove", << >>)
    /\ probe' = ProbeIdle
    /\ UNCHANGED seen
    /\ UNCHANGED << voxels, undoStack, redoStack, rebuildTargets,
                    rebuildStartTime, now, state, mode, buildTool,
                    selectedProps, isMirrorMode, isSelecting,
                    selectionStartPoint, selectedVoxelIds >>

\* onMouseUp: closes the drag and runs finishSelection(). The start point
\* is not read again before the next onMouseDown overwrites it.
SelectUp ==
    /\ isSelecting
    /\ isSelecting' = FALSE
    /\ selectionStartPoint' = NoPoint
    /\ selectedVoxelIds' = SelectIn(voxels, selectionBox)
    /\ Called("selectUp", << >>)
    /\ probe' = ProbeIdle
    /\ UNCHANGED seen
    /\ UNCHANGED << voxels, undoStack, redoStack, rebuildTargets,
                    rebuildStartTime, now, state, mode, buildTool,
                    selectedProps, isMirrorMode, selectionBox >>

\* deleteSelected()
DeleteSelected ==
    /\ Called("deleteSelected", << >>)
    /\ IF selectedVoxelIds = {}
       THEN /\ probe' = ProbeIdle
            /\ UNCHANGED << engine, seen >>
       ELSE /\ Mutate(DeleteSelectedVoxels(voxels, selectedVoxelIds))
            /\ selectedVoxelIds' = {}
            /\ UNCHANGED stateSeen
            /\ UNCHANGED << rebuildTargets, rebuildStartTime, now, state,
                            mode, buildTool, selectedProps, isMirrorMode,
                            isSelecting, selectionStartPoint, selectionBox >>

\* copySelected()
CopySelected ==
    /\ Called("copySelected", << >>)
    /\ IF selectedVoxelIds = {}
       THEN /\ probe' = ProbeIdle
            /\ UNCHANGED << engine, seen >>
       ELSE /\ Mutate(CopySelectedVoxels(voxels, selectedVoxelIds))
            /\ UNCHANGED stateSeen
            /\ UNCHANGED << rebuildTargets, rebuildStartTime, now, state,
                            mode, buildTool, selectedProps, isMirrorMode,
                            isSelecting, selectionStartPoint, selectionBox,
                            selectedVoxelIds >>

\* Cells moveSelected may move a voxel to in the model: one cell around
\* the grid.
InArena(vs) ==
    \A i \in 1..Len(vs) :
        /\ Abs(vs[i].x) <= 2 * Scale
        /\ vs[i].y >= FLOOR_Y /\ vs[i].y <= -10 * Scale
        /\ Abs(vs[i].z) <= Scale

\* moveSelected(axis, dir)
MoveSelected ==
    /\ Called("moveSelected", << >>)
    /\ IF selectedVoxelIds = {}
       THEN /\ probe' = ProbeIdle
            /\ UNCHANGED << engine, seen >>
       ELSE /\ \E axis \in {"x", "y", "z"}, dir \in {-1, 1} :
                 LET moved == MoveSelectedVoxels(voxels, selectedVoxelIds,
                                                 axis, dir)
                 IN InArena(moved) /\ Mutate(moved)
            /\ UNCHANGED stateSeen
            /\ UNCHANGED << rebuildTargets, rebuildStartTime, now, state,
                            mode, buildTool, selectedProps, isMirrorMode,
                            isSelecting, selectionStartPoint, selectionBox,
                            selectedVoxelIds >>

\* A dismantle() that build mode does not stop.
DismantleInAnyMode ==
    /\ Called("dismantle", << >>)
    /\ probe' = ProbeIdle
    /\ IF state # STABLE
       THEN UNCHANGED << engine, seen >>
       ELSE /\ state' = DISMANTLING
            /\ stateSeen' = DISMANTLING
            /\ UNCHANGED historySeen
            /\ \E kicks \in [1..Len(voxels) -> Kicks] :
                  voxels' = [i \in 1..Len(voxels) |->
                                Kicked(voxels[i], kicks[i])]
            /\ UNCHANGED << undoStack, redoStack, rebuildTargets,
                            rebuildStartTime, now, mode, buildTool,
                            selectedProps, isMirrorMode, isSelecting,
                            selectionStartPoint, selectionBox,
                            selectedVoxelIds >>

\* dismantle()
Dismantle ==
    /\ Called("dismantle", << >>)
    /\ probe' = ProbeIdle
    /\ IF state # STABLE \/ mode = BUILD
       THEN UNCHANGED << engine, seen >>
       ELSE /\ state' = DISMANTLING
            /\ stateSeen' = DISMANTLING
            /\ UNCHANGED historySeen
            /\ \E kicks \in [1..Len(voxels) -> Kicks] :
                  voxels' = [i \in 1..Len(voxels) |->
                                Kicked(voxels[i], kicks[i])]
            /\ UNCHANGED << undoStack, redoStack, rebuildTargets,
                            rebuildStartTime, now, mode, buildTool,
                            selectedProps, isMirrorMode, isSelecting,
                            selectionStartPoint, selectionBox,
                            selectedVoxelIds >>

\* A rebuild() that only starts from STABLE.
RebuildFromStableOnly ==
    \E m \in 1..Len(Targets) :
        /\ Called("rebuild", << m >>)
        /\ IF state # STABLE \/ mode = BUILD
           THEN /\ probe' = ProbeIdle
                /\ UNCHANGED << engine, seen >>
           ELSE LET base == IF Len(voxels) = 0 THEN 1 ELSE Len(voxels)
                    n == Max(0, Len(Targets[m]) - base)
                IN \E picks \in [1..n -> 1..base] :
                      LET src == SourceVoxels(voxels, Len(Targets[m]), picks,
                                              selectedVoxelIds)
                      IN /\ Mutate(src)
                         /\ rebuildTargets' = Mappings(src, Targets[m])
                         /\ now' = 0
                         /\ rebuildStartTime' = 0
                         /\ state' = REBUILDING
                         /\ stateSeen' = REBUILDING
                         /\ UNCHANGED << mode, buildTool, selectedProps,
                                         isMirrorMode, isSelecting,
                                         selectionStartPoint, selectionBox,
                                         selectedVoxelIds >>

\* rebuild(targetModel). The clock of the model restarts with the rebuild:
\* only Date.now() - rebuildStartTime is ever read.
Rebuild ==
    \E m \in 1..Len(Targets) :
        /\ Called("rebuild", << m >>)
        /\ IF state = REBUILDING \/ mode = BUILD
           THEN /\ probe' = ProbeIdle
                /\ UNCHANGED << engine, seen >>
           ELSE LET base == IF Len(voxels) = 0 THEN 1 ELSE Len(voxels)
                    n == Max(0, Len(Targets[m]) - base)
                IN \E picks \in [1..n -> 1..base] :
                      LET src == SourceVoxels(voxels, Len(Targets[m]), picks,
                                              selectedVoxelIds)
                      IN /\ Mutate(src)
                         /\ rebuildTargets' = Mappings(src, Targets[m])
                         /\ now' = 0
                         /\ rebuildStartTime' = 0
                         /\ state' = REBUILDING
                         /\ stateSeen' = REBUILDING
                         /\ UNCHANGED << mode, buildTool, selectedProps,
                                         isMirrorMode, isSelecting,
                                         selectionStartPoint, selectionBox,
                                         selectedVoxelIds >>

\* updatePhysics(): the voxel list after one frame in state st, elapsed
\* milliseconds after the rebuild started. Nothing moves in STABLE.
updatePhysics(vs, st, targets, elapsed) ==
    IF st = DISMANTLING
    THEN [i \in 1..Len(vs) |-> FallStep(vs[i])]
    ELSE IF st = REBUILDING
         THEN [i \in 1..Len(vs) |-> RebuildStep(vs, targets, i, elapsed)]
         ELSE vs

\* Largest delay of the current rebuild targets, in milliseconds rounded up:
\* from there on the elapsed time is past every delay.
MaxDelayMs ==
    LET ds == {rebuildTargets[i].delay : i \in 1..Len(rebuildTargets)} \cup {0}
        d == CHOOSE x \in ds : \A y \in ds : y <= x
    IN (d + Scale - 1) \div Scale

\* A frame that ends DISMANTLING once it has moved the voxels.
TickEndsDismantling ==
    /\ state # STABLE
    /\ lastOp' = Op("tick", << >>)
    /\ UNCHANGED budget
    /\ probe' = ProbeIdle
    /\ IF state = DISMANTLING
       THEN /\ \A i \in 1..Len(voxels) :
                  Max(Abs(voxels[i].rx), Max(Abs(voxels[i].ry),
                                             Abs(voxels[i].rz))) < MaxRot
            /\ voxels' = updatePhysics(voxels, state, rebuildTargets, 0)
            /\ state' = STABLE
            /\ stateSeen' = STABLE
            /\ UNCHANGED now
       ELSE \E dt \in FrameMs :
               LET t == Min(now + dt, rebuildStartTime + MaxDelayMs)
                   elapsed == t - rebuildStartTime
               IN /\ now' = t
                  /\ voxels' = updatePhysics(voxels, state, rebuildTargets,
                                            elapsed)
                  /\ state' = IF AllDone(voxels, rebuildTargets, elapsed)
                              THEN STABLE ELSE REBUILDING
                  /\ stateSeen' = IF AllDone(voxels, rebuildTargets, elapsed)
                                  THEN STABLE ELSE stateSeen
    /\ UNCHANGED historySeen
    /\ UNCHANGED << undoStack, redoStack, rebuildTargets, rebuildStartTime,
                    mode, buildTool, selectedProps, isMirrorMode,
                    isSelecting, selectionStartPoint, selectionBox,
                    selectedVoxelIds >>

\* One frame of animate(): Date.now() has advanced by dt, and updatePhysics
\* runs unless the state is STABLE.
Tick ==
    /\ state # STABLE
    /\ lastOp' = Op("tick", << >>)
    /\ UNCHANGED budget
    /\ probe' = ProbeIdle
    /\ IF state = DISMANTLING
       THEN /\ \A i \in 1..Len(voxels) :
                  Max(Abs(voxels[i].rx), Max(Abs(voxels[i].ry),
                                             Abs(voxels[i].rz))) < MaxRot
            /\ voxels' = updatePhysics(voxels, state, rebuildTargets, 0)
            /\ UNCHANGED << now, state, stateSeen >>
       ELSE \E dt \in FrameMs :
               LET t == Min(now + dt, rebuildStartTime + MaxDelayMs)
                   elapsed == t - rebuildStartTime
               IN /\ now' = t
                  /\ voxels' = updatePhysics(voxels, state, rebuildTargets,
                                            elapsed)
                  /\ state' = IF AllDone(voxels, rebuildTargets, elapsed)
                              THEN STABLE ELSE REBUILDING
                  /\ stateSeen' = IF AllDone(voxels, rebuildTargets, elapsed)
                                  THEN STABLE ELSE stateSeen
    /\ UNCHANGED historySeen
    /\ UNCHANGED << undoStack, redoStack, rebuildTargets, rebuildStartTime,
                    mode, buildTool, selectedProps, isMirrorMode,
                    isSelecting, selectionStartPoint, selectionBox,
                    selectedVoxelIds >>

Next ==
    \/ LoadInitialModel
    \/ Undo
    \/ Redo
    \/ SetMode
    \/ SetTool
    \/ SetMirrorMode
    \/ SetBuildProps
    \/ Place
    \/ Erase
    \/ Pick
    \/ PaintBucket
    \/ SelectDown
    \/ SelectMove
    \/ SelectUp
    \/ DeleteSelected
    \/ CopySelected
    \/ MoveSelected
    \/ Dismantle
    \/ Rebuild
    \/ Tick

Spec == Init /\ [][Next]_vars

\* Runs that only place voxels, with mirror mode and build properties free.
NextPlace ==
    \/ Place
    \/ SetMirrorMode
    \/ SetBuildProps

SpecPlace == InitPlace /\ [][NextPlace]_vars

\* Runs of the calls that push history, with undo, redo, the selection
\* drag and the animation frames.
NextHistory ==
    \/ Undo
    \/ Redo
    \/ Place
    \/ Erase
    \/ PaintBucket
    \/ SelectDown
    \/ SelectMove
    \/ SelectUp
    \/ DeleteSelected
    \/ CopySelected
    \/ MoveSelected
    \/ Rebuild
    \/ Tick

SpecHistory == Init /\ [][NextHistory]_vars

\* Runs of the transitions in VIEW mode: load, dismantle, rebuild, frames,
\* undo and redo.
NextMorph ==
    \/ LoadInitialModel
    \/ Undo
    \/ Redo
    \/ Dismantle
    \/ Rebuild
    \/ Tick

SpecMorph == InitView /\ [][NextMorph]_vars

\* Runs in which no handler is called while a rebuild is in flight, and the
\* frames keep coming: requestAnimationFrame re-arms animate() every frame.
\* The field is dismantled, if at all, before its first rebuild.
NextRun ==
    \/ Tick
    \/ state # REBUILDING /\ undoStack = << >> /\ Dismantle
    \/ state # REBUILDING /\ Rebuild

SpecRun == InitView /\ [][NextRun]_vars /\ WF_vars(Tick)

\* Runs in VIEW mode that start with one rebuild: its snapshot is undone
\* and redone while the engine is at rest, dismantling or rebuilding.
NextUndo ==
    \/ Tick
    \/ Undo
    \/ Redo
    \/ (undoStack # << >> \/ redoStack # << >>) /\ Dismantle
    \/ undoStack = << >> /\ redoStack = << >> /\ Rebuild

SpecUndo == InitUndo /\ [][NextUndo]_vars

\* Runs of the two transitions in either mode: dismantle, rebuild, mode
\* changes and frames.
NextGuard ==
    \/ SetMode
    \/ Dismantle
    \/ Rebuild
    \/ Tick

SpecGuard == InitGuard /\ [][NextGuard]_vars

\* Runs of the build tools on fields that the group operations have
\* edited: tool and colour changes, placements, paint fills, copies, moves.
NextPaint ==
    \/ SetTool
    \/ SetBuildProps
    \/ Place
    \/ PaintBucket
    \/ CopySelected
    \/ MoveSelected

SpecPaint == Init /\ [][NextPaint]_vars

\* The scenes in BUILD mode with the select tool, a drag having chosen the
\* selection.
InitSelect ==
    /\ Scenes
    /\ budget = MaxUndoCalls
    /\ mode = BUILD
    /\ buildTool = "select"
    /\ selectedProps = << BLUE, MATTE >>
    /\ isMirrorMode = FALSE

\* The selection and what acts on it: the drag, the bulk operations, and
\* the two calls that clear the selection.
NextSelect ==
    \/ SetMode
    \/ SetTool
    \/ SelectDown
    \/ SelectMove
    \/ SelectUp
    \/ DeleteSelected
    \/ CopySelected
    \/ MoveSelected

SpecSelect == InitSelect /\ [][NextSelect]_vars

\* The engine in VIEW mode after loadInitialModel of one of the solver's
\* fields.
InitMatch ==
    /\ \E m \in 1..Len(MatchModels) :
          Scene(MatchModels[m], VIEW, "pencil", << BLUE, MATTE >>, FALSE,
                << 0, 0 >>, << 0, 0 >>)
    /\ budget = MaxViewCalls

\* Rebuilds of those fields, intact or fallen apart, and their frames.
NextMatch ==
    \/ Tick
    \/ Undo
    \/ undoStack = << >> /\ Dismantle
    \/ Rebuild

SpecMatch == InitMatch /\ [][NextMatch]_vars

\* Erasing on fields that copies and placements have built, mirror mode on
\* or off.
NextErase ==
    \/ SetTool
    \/ SetMirrorMode
    \/ Place
    \/ Erase
    \/ CopySelected

SpecErase == Init /\ [][NextErase]_vars

\* The scenes in BUILD mode with the select tool and the call budget of
\* the editing runs.
InitDrag ==
    /\ Scenes
    /\ budget = MaxCalls
    /\ mode = BUILD
    /\ buildTool = "select"
    /\ selectedProps = << BLUE, MATTE >>
    /\ isMirrorMode = FALSE

\* A selection drag interleaved with the calls that change the mode, the
\* tool and the transition state.
NextDrag ==
    \/ SetMode
    \/ SetTool
    \/ SelectDown
    \/ SelectMove
    \/ SelectUp
    \/ Dismantle
    \/ Rebuild
    \/ Undo
    \/ Redo
    \/ Tick

SpecDrag == InitDrag /\ [][NextDrag]_vars

\* A selection kept across the calls that edit, restore or replace the
\* field.
NextKeep ==
    \/ SelectDown
    \/ SelectMove
    \/ SelectUp
    \/ DeleteSelected
    \/ CopySelected
    \/ MoveSelected
    \/ Undo
    \/ Redo
    \/ LoadInitialModel

SpecKeep == InitDrag /\ [][NextKeep]_vars

\* The scenes in BUILD mode with the select tool, and calls enough to
\* leave build mode in the middle of a drag, start a rebuild and act on the
\* selection.
InitFlight ==
    /\ Scenes
    /\ budget = MaxFlightCalls
    /\ mode = BUILD
    /\ buildTool = "select"
    /\ selectedProps = << BLUE, MATTE >>
    /\ isMirrorMode = FALSE

\* A drag across setMode, a rebuild, and the bulk operations on the
\* selection while the rebuild is in flight.
NextFlight ==
    \/ state = STABLE /\ SelectDown
    \/ isSelecting /\ mode = BUILD /\ SetMode
    \/ SelectUp
    \/ selectedVoxelIds # {} /\ state = REBUILDING /\ DeleteSelected
    \/ selectedVoxelIds # {} /\ state = REBUILDING /\ CopySelected
    \/ state = STABLE /\ Rebuild
    \/ Tick

SpecFlight == InitFlight /\ [][NextFlight]_vars

\* ------------------------------------------------------------------------
\* Properties
\* ------------------------------------------------------------------------

\* Two different list entries at one (x, y, z).
SharedCell(vs) ==
    \E i, j \in 1..Len(vs) :
        /\ i # j
        /\ vs[i].x = vs[j].x /\ vs[i].y = vs[j].y /\ vs[i].z = vs[j].z

\* The step is a call of the handler called name.
CallOf(name) == lastOp'.name = name /\ budget' = budget - 1

\* C1: from a field without two voxels at one (x,y,z), no sequence of place
\* calls on integer cells, mirror mode on or off, makes two voxels share
\* their (x,y,z).
PlacementUniqueness == ~SharedCell(voxels)

\* C1 witness: an accepted mirror placement at x # 0 whose mirrored cell was
\* occupied already, so that only one voxel was added.
PlacementUniquenessWitness ==
    /\ lastOp.name = "place"
    /\ isMirrorMode
    /\ lastOp.arg[1] # 0
    /\ probe.phase = 1
    /\ Len(probe.after) = Len(probe.before) + 1

\* C2: undo() right after a history-pushing call made in STABLE leaves the
\* persisted list of (x,y,z,color,material) that was there before the call.
UndoRestoresBefore ==
    probe.phase = 2 => getVoxelData(voxels) = probe.before

\* C2 witness: undo() has just reverted a call that had changed the list.
UndoRestoresBeforeWitness ==
    /\ probe.phase = 2
    /\ probe.before # probe.after
    /\ lastOp.name = "undo"

\* C3: op; undo(); redo() leaves the persisted list that was there right
\* after op.
RedoRestoresAfter ==
    probe.phase = 3 => getVoxelData(voxels) = probe.after

\* C3 witness: redo() has just re-applied a call that had changed the list.
RedoRestoresAfterWitness ==
    /\ probe.phase = 3
    /\ probe.before # probe.after
    /\ lastOp.name = "redo"

\* C4: a place call on an occupied cell, or on a field that holds MAX_VOXELS
\* or more voxels, leaves the voxel list, the undo stack and the redo stack
\* as they were.
RejectedPlaceChangesNothing ==
    [][(/\ CallOf("place")
        /\ \/ Len(voxels) >= MAX_VOXELS
           \/ \E i \in 1..Len(voxels) :
                 << voxels[i].x, voxels[i].y, voxels[i].z >> = lastOp'.arg)
       => UNCHANGED << voxels, undoStack, redoStack >>]_vars

\* C4 witness: a place call has just been rejected on an occupied cell while
\* the redo stack held a snapshot.
RejectedPlaceWitness ==
    /\ lastOp.name = "place"
    /\ probe.phase = 0
    /\ SomeAt(voxels, lastOp.arg[1], lastOp.arg[2], lastOp.arg[3])
    /\ redoStack # << >>

\* C5: from a field of at most MAX_VOXELS voxels, no sequence of place
\* calls, mirror mode on or off, makes the field larger than MAX_VOXELS.
PlaceKeepsCapacity == Len(voxels) <= MAX_VOXELS

\* The cell (-x, y, z) of the cell p = (x, y, z).
MirrorOf(p) == << -p[1], p[2], p[3] >>

\* C6 as stated: with mirror mode on, after place(x,y,z) with x # 0 on a
\* field below capacity, in STABLE and build mode, the field has a voxel at
\* (x,y,z) and one at (-x,y,z).
MirrorPlaceFillsBothCells ==
    [][(/\ CallOf("place")
        /\ isMirrorMode
        /\ lastOp'.arg[1] # 0
        /\ Len(voxels) < MAX_VOXELS
        /\ state = STABLE /\ mode = BUILD)
       => LET p == lastOp'.arg
              q == MirrorOf(lastOp'.arg)
          IN /\ SomeAt(voxels', p[1], p[2], p[3])
             /\ SomeAt(voxels', q[1], q[2], q[3])]_vars

\* C6 amended: the same when the cell (x,y,z) is free, that is when the
\* placement is accepted.
AcceptedMirrorPlaceFillsBothCells ==
    [][(/\ CallOf("place")
        /\ isMirrorMode
        /\ lastOp'.arg[1] # 0
        /\ Len(voxels) < MAX_VOXELS
        /\ ~SomeAt(voxels, lastOp'.arg[1], lastOp'.arg[2], lastOp'.arg[3])
        /\ state = STABLE /\ mode = BUILD)
       => LET p == lastOp'.arg
              q == MirrorOf(lastOp'.arg)
          IN /\ SomeAt(voxels', p[1], p[2], p[3])
             /\ SomeAt(voxels', q[1], q[2], q[3])]_vars

\* C6 witness: a mirror placement at x # 0 has just added both voxels.
MirrorPlaceWitness ==
    /\ lastOp.name = "place"
    /\ isMirrorMode
    /\ lastOp.arg[1] # 0
    /\ probe.phase = 1
    /\ Len(probe.after) = Len(probe.before) + 2

\* A voxel on the integer grid with no linear and no angular velocity.
AtRest(v) ==
    /\ v.x % Scale = 0 /\ v.y % Scale = 0 /\ v.z % Scale = 0
    /\ v.vx = 0 /\ v.vy = 0 /\ v.vz = 0
    /\ v.rvx = 0 /\ v.rvy = 0 /\ v.rvz = 0

\* C7: in STABLE every voxel has integer x, y, z and zero linear and
\* angular velocity (models, targets and placements being integer).
StableVoxelsAtRest ==
    state = STABLE => \A i \in 1..Len(voxels) : AtRest(voxels[i])

\* C8: in STABLE no two voxels share their (x,y,z), whatever calls and
\* frames came before (models and targets having no duplicate positions).
StableCellsUnique == state = STABLE => ~SharedCell(voxels)

\* C9: once rebuild has put the engine in REBUILDING, frames alone bring
\* it back to STABLE.
RebuildTerminates == (state = REBUILDING) ~> (state = STABLE)

\* C9 witness: a frame has just completed a rebuild that had a matched
\* voxel to move.
RebuildTerminatesWitness ==
    /\ state = STABLE
    /\ lastOp.name = "tick"
    /\ \E i \in 1..Len(rebuildTargets) : ~rebuildTargets[i].isRubble

\* C10: an accepted rebuild(target) leaves as many rebuild targets as the
\* field has voxels after cloning, and at least as many as the target has.
RebuildTargetsCoverField ==
    [][(/\ CallOf("rebuild")
        /\ state # REBUILDING /\ mode # BUILD)
       => /\ Len(rebuildTargets') = Len(voxels')
          /\ Len(voxels') >= Len(Targets[lastOp'.arg[1]])]_vars

\* C10 witness: a rebuild has just cloned voxels of a field smaller than
\* its target.
RebuildTargetsWitness ==
    /\ lastOp.name = "rebuild"
    /\ state = REBUILDING
    /\ probe.phase = 1
    /\ Len(probe.before) > 0
    /\ Len(voxels) > Len(probe.before)
    /\ Len(rebuildTargets) = Len(voxels)

\* Two voxels one 6-connected step apart.
Adjacent(a, b) ==
    \/ Abs(a.x - b.x) = Scale /\ a.y = b.y /\ a.z = b.z
    \/ a.x = b.x /\ Abs(a.y - b.y) = Scale /\ a.z = b.z
    \/ a.x = b.x /\ a.y = b.y /\ Abs(a.z - b.z) = Scale

\* The indices of the voxels reachable from vs[k] by 6-connected steps
\* through voxels that have the (color, material) of vs[k].
RECURSIVE Grow(_, _, _)
Grow(vs, k, S) ==
    LET more == {j \in 1..Len(vs) :
                    /\ j \notin S
                    /\ vs[j].color = vs[k].color
                    /\ vs[j].material = vs[k].material
                    /\ \E i \in S : Adjacent(vs[i], vs[j])}
    IN IF more = {} THEN S ELSE Grow(vs, k, S \cup more)

Component(vs, k) == Grow(vs, k, {k})

\* C11: a paint fill started on a voxel repaints exactly the voxels
\* reachable from it by 6-connected steps through voxels of its original
\* (color, material); every other voxel keeps its color and material, no
\* voxel moves and the count is unchanged.
PaintFillRepaintsComponent ==
    [][CallOf("paintBucket")
       => LET comp == Component(voxels, lastOp'.arg[4])
          IN /\ Len(voxels') = Len(voxels)
             /\ \A i \in 1..Len(voxels) :
                   /\ voxels'[i].x = voxels[i].x
                   /\ voxels'[i].y = voxels[i].y
                   /\ voxels'[i].z = voxels[i].z
                   /\ IF i \in comp
                      THEN /\ voxels'[i].color = Color(selectedProps[1])
                           /\ voxels'[i].material = selectedProps[2]
                      ELSE /\ voxels'[i].color = voxels[i].color
                           /\ voxels'[i].material = voxels[i].material]_vars

\* The last step pushed a history snapshot.
Pushed == probe.phase \in {1, 4}

\* C12: the undo stack never holds more than maxHistory snapshots (50 in
\* the source), and a push on a full stack drops the oldest snapshot, keeps
\* the others in their order and puts the new one last.
UndoStackBounded ==
    [][/\ Len(undoStack') <= maxHistory
       /\ (Pushed' /\ budget' = budget - 1 /\ Len(undoStack) = maxHistory)
          => undoStack' = Tail(undoStack) \o << getVoxelData(voxels) >>]_vars

\* C12 witness: the third push of a run has just dropped the snapshot of
\* the loaded model (no model has one voxel) from the full stack.
UndoStackBoundedWitness ==
    /\ Pushed
    /\ budget = MaxCalls - (maxHistory + 1)
    /\ Len(undoStack) = maxHistory
    /\ Len(undoStack[1]) = 1

\* The handlers that push a history snapshot.
PushingOps ==
    {"place", "erase", "paintBucket", "deleteSelected", "copySelected",
     "moveSelected", "rebuild"}

\* C13: right after a call that pushed a history snapshot the redo stack is
\* empty, and a redo() made then changes nothing.
PushClearsRedo ==
    [][/\ (Pushed' /\ budget' = budget - 1 /\ lastOp'.name \in PushingOps)
          => redoStack' = << >>
       /\ (Pushed /\ CallOf("redo")) => UNCHANGED engine]_vars

\* C13 witness: redo() has just been called right after a push: the probe
\* of the push is dropped, the undo stack still ends with its snapshot.
PushClearsRedoWitness ==
    /\ lastOp.name = "redo"
    /\ probe.phase = 0
    /\ redoStack = << >>
    /\ undoStack # << >>
    /\ getVoxelData(voxels) # Top(undoStack)
    /\ budget = MaxCalls - 2

\* C14: undo() on an empty undo stack and redo() on an empty redo stack
\* leave the voxel list, both stacks and the transition state as they were.
EmptyUndoRedoAreNoOps ==
    [][/\ (CallOf("undo") /\ undoStack = << >>)
          => UNCHANGED << voxels, undoStack, redoStack, state >>
       /\ (CallOf("redo") /\ redoStack = << >>)
          => UNCHANGED << voxels, undoStack, redoStack, state >>]_vars

\* C14 witness: undo() has just been called while dismantling with nothing
\* to undo, and the voxels are still falling.
EmptyUndoWitness ==
    /\ lastOp.name = "undo"
    /\ state = DISMANTLING
    /\ undoStack = << >>
    /\ redoStack = << >>

\* No frame moves a voxel of the field vs in state st.
Still(vs, st, targets) ==
    \A dt \in FrameMs : \A k \in 0..3 :
        updatePhysics(vs, st, targets, k * dt) = vs

\* C15: undo() on a non-empty undo stack and redo() on a non-empty redo
\* stack, in STABLE, DISMANTLING or REBUILDING, leave the engine in STABLE
\* with the field of the restored snapshot, and frames move no voxel then.
UndoRedoLandInStable ==
    [][/\ (CallOf("undo") /\ undoStack # << >>)
          => /\ state' = STABLE
             /\ getVoxelData(voxels') = undoStack[Len(undoStack)]
             /\ Still(voxels', state', rebuildTargets')
       /\ (CallOf("redo") /\ redoStack # << >>)
          => /\ state' = STABLE
             /\ getVoxelData(voxels') = redoStack[Len(redoStack)]
             /\ Still(voxels', state', rebuildTargets')]_vars

\* C15 witness: undo() has just restored the field from before a rebuild
\* while the voxels were falling apart: the redo stack keeps the list they
\* had in flight, off the z = 0 plane of every model.
UndoRedoWitness ==
    /\ lastOp.name = "undo"
    /\ state = STABLE
    /\ redoStack # << >>
    /\ \E i \in 1..Len(Top(redoStack)) : Top(redoStack)[i].z # 0

\* C16 as stated: in DISMANTLING or REBUILDING, a call of undo() puts the
\* engine in STABLE.
UndoEndsTransition ==
    [][(CallOf("undo") /\ state \in {DISMANTLING, REBUILDING})
       => state' = STABLE]_vars

\* C16 amended: in DISMANTLING or REBUILDING, a call of undo() with a
\* snapshot on the undo stack puts the engine in STABLE; in REBUILDING
\* there always is one, the one rebuild pushed.
UndoWithSnapshotEndsTransition ==
    [][/\ (/\ CallOf("undo")
           /\ state \in {DISMANTLING, REBUILDING}
           /\ undoStack # << >>)
          => state' = STABLE
       /\ state' = REBUILDING => undoStack' # << >>]_vars

\* C16 witness: undo() has just cut a rebuild short: the list it saved for
\* redo has a matched voxel that had not reached its target.
UndoEndsRebuildWitness ==
    /\ lastOp.name = "undo"
    /\ state = STABLE
    /\ redoStack # << >>
    /\ Len(Top(redoStack)) = Len(rebuildTargets)
    /\ \E i \in 1..Len(rebuildTargets) :
          /\ ~rebuildTargets[i].isRubble
          /\ \/ Top(redoStack)[i].x # rebuildTargets[i].x
             \/ Top(redoStack)[i].y # rebuildTargets[i].y
             \/ Top(redoStack)[i].z # rebuildTargets[i].z

\* C17: dismantle() takes effect only in STABLE outside build mode, and
\* then the state becomes DISMANTLING; in any other state or in build mode
\* the state, the voxel list and both history stacks stay as they were.
DismantleGuarded ==
    [][CallOf("dismantle")
       => IF state = STABLE /\ mode # BUILD
          THEN state' = DISMANTLING
          ELSE UNCHANGED << state, voxels, undoStack, redoStack >>]_vars

\* C17 witness: dismantle() has just been ignored in build mode.
DismantleIgnoredWitness ==
    /\ lastOp.name = "dismantle"
    /\ mode = BUILD
    /\ state = STABLE
    /\ voxels # << >>

\* C18 as stated: rebuild(target) called in DISMANTLING or in STABLE moves
\* the state to REBUILDING, with no other precondition.
RebuildStartsInEitherState ==
    [][(CallOf("rebuild") /\ state \in {STABLE, DISMANTLING})
       => state' = REBUILDING]_vars

\* C18 amended: rebuild(target) called in DISMANTLING or in STABLE outside
\* build mode moves the state to REBUILDING; in build mode it is ignored.
RebuildStartsOutsideBuildMode ==
    [][/\ (CallOf("rebuild") /\ state \in {STABLE, DISMANTLING}
                             /\ mode # BUILD)
          => state' = REBUILDING
       /\ (CallOf("rebuild") /\ mode = BUILD) => UNCHANGED engine]_vars

\* C18 witness: rebuild has just started on voxels that dismantle had
\* kicked.
RebuildFromDismantlingWitness ==
    /\ lastOp.name = "rebuild"
    /\ state = REBUILDING
    /\ \E i \in 1..Len(voxels) : voxels[i].vx # 0

\* The step is the frame that ends a rebuild.
Completes == state = REBUILDING /\ state' = STABLE /\ lastOp'.name = "tick"

\* Voxel v is where its rebuild target t wants it: a matched voxel at the
\* target position, a rubble voxel lying still on the floor.
Settled(v, t) ==
    IF t.isRubble
    THEN v.y = FloorRest /\ v.vy = 0
    ELSE v.x = t.x /\ v.y = t.y /\ v.z = t.z

\* C19: the transition from REBUILDING to STABLE fires only in a frame in
\* which every matched voxel is at its target and every rubble voxel is at
\* rest on the floor (y = FLOOR_Y + 0.5, vertical velocity 0).
CompletionWaitsForAll ==
    [][Completes
       => \A i \in 1..Len(voxels') :
             i <= Len(rebuildTargets) => Settled(voxels'[i], rebuildTargets[i])]_vars

\* The number of rubble entries among the rebuild targets.
RubbleCount(targets) ==
    Cardinality({i \in 1..Len(targets) : targets[i].isRubble})

\* C20: when a rebuild of N voxels onto M < N targets completes, the field
\* still holds N voxels: M at the target positions and N - M rubble voxels
\* at rest on the floor.
RubbleStaysAtRest ==
    [][(Completes /\ RubbleCount(rebuildTargets) > 0)
       => /\ Len(voxels') = Len(rebuildTargets)
          /\ Cardinality({i \in 1..Len(voxels') :
                            /\ rebuildTargets[i].isRubble
                            /\ voxels'[i].y = FloorRest
                            /\ voxels'[i].vy = 0})
                = RubbleCount(rebuildTargets)
          /\ \A i \in 1..Len(voxels') :
                ~rebuildTargets[i].isRubble
                => /\ voxels'[i].x = rebuildTargets[i].x
                   /\ voxels'[i].y = rebuildTargets[i].y
                   /\ voxels'[i].z = rebuildTargets[i].z]_vars

\* The operations that edit the field.
EditOps ==
    {"place", "erase", "paintBucket", "deleteSelected", "copySelected",
     "moveSelected"}

\* C21: place, erase, paintBucket, deleteSelected, copySelected and
\* moveSelected change the voxel list or push a history snapshot only when
\* the state is STABLE and the mode is BUILD; in every other state or mode
\* they leave the field and the history unchanged.
EditsOnlyInStableBuild ==
    [][(/\ \E name \in EditOps : CallOf(name)
        /\ ~(state = STABLE /\ mode = BUILD))
       => UNCHANGED << voxels, undoStack, redoStack >>]_vars

\* C22: after copySelected on a field of at most MAX_VOXELS voxels, with
\* any selection, the field holds at most MAX_VOXELS voxels.
CopyKeepsCapacity ==
    [][(CallOf("copySelected") /\ Len(voxels) <= MAX_VOXELS)
       => Len(voxels') <= MAX_VOXELS]_vars

\* The field holds the voxels of data: same positions and colours, in
\* order.
HoldsModel(vs, data) ==
    /\ Len(vs) = Len(data)
    /\ \A i \in 1..Len(data) :
          /\ vs[i].x = data[i].x
          /\ vs[i].y = data[i].y
          /\ vs[i].z = data[i].z
          /\ GetHex(vs[i].color) = data[i].color

\* C23: loadInitialModel(data), called in any state, replaces the whole
\* field with the voxels of data (same positions and colours, in order),
\* empties both the undo and the redo stack, and leaves the state STABLE.
LoadInitialModelResets ==
    [][\A m \in 1..Len(Models) :
          (CallOf("loadInitialModel") /\ lastOp'.arg = << m >>)
          => /\ HoldsModel(voxels', Models[m])
             /\ undoStack' = << >>
             /\ redoStack' = << >>
             /\ state' = STABLE]_vars

\* loadInitialModel has just been called in the middle of a rebuild, the
\* undo stack holding the snapshot the rebuild pushed.
LoadInitialModelWitness ==
    /\ lastOp.name = "loadInitialModel"
    /\ budget = MaxViewCalls - 2
    /\ rebuildTargets # << >>
    /\ now = rebuildStartTime
    /\ Len(Models[lastOp.arg[1]]) > 1
    /\ state = STABLE
    /\ undoStack = << >>

\* C24: the selection set is empty immediately after every setTool call
\* and after every setMode call that leaves build mode.
SelectionClearedOnSwitch ==
    [][(\/ CallOf("setTool")
        \/ CallOf("setMode") /\ mode = BUILD /\ mode' # BUILD)
       => selectedVoxelIds' = {}]_vars

\* setTool has just been called, as the first call, on a scene whose drag
\* box had selected at least one voxel.
SelectionClearedWitness ==
    /\ lastOp.name = "setTool"
    /\ budget = MaxUndoCalls - 1
    /\ buildTool = "pencil"
    /\ SelectIn(voxels, selectionBox) # {}
    /\ selectedVoxelIds = {}

\* A frame of updatePhysics in REBUILDING.
RebuildFrame == lastOp'.name = "tick" /\ state = REBUILDING

\* Is voxel i matched, its delay over in the frame that ends at now'?
Moving(i) ==
    /\ i <= Len(rebuildTargets)
    /\ ~rebuildTargets[i].isRubble
    /\ ~Waiting(now' - rebuildStartTime, rebuildTargets[i])

\* C25: during REBUILDING every matched voxel carries its target's
\* material from the first frame in which it moves, so when the rebuild
\* completes every matched voxel has the material of its target.
MatchedCarryTargetMaterial ==
    [][RebuildFrame
       => \A i \in 1..Len(voxels) :
             Moving(i) => voxels'[i].material = rebuildTargets[i].material]_vars

\* The voxel array with 0 (Matte) written where the material is absent.
AsMatte(data) ==
    [i \in 1..Len(data) |->
        [data[i] EXCEPT !.material = OrMatte(data[i].material)]]

\* rebuild(Targets[m]) is called and not ignored.
RebuildRuns(m) ==
    /\ CallOf("rebuild")
    /\ lastOp'.arg = << m >>
    /\ state # REBUILDING
    /\ mode # BUILD

\* C26: a voxel of an input array whose material is absent is treated as
\* Matte: rebuild assigns the same sources to the targets, and gives the
\* targets the same materials, as rebuild with 0 written for each absent
\* material.
AbsentMaterialIsMatte ==
    [][\A m \in 1..Len(Targets) :
          RebuildRuns(m)
          => /\ Assign(voxels', Targets[m], 1, << >>)
                  = Assign(voxels', AsMatte(Targets[m]), 1, << >>)
             /\ rebuildTargets' = Mappings(voxels', AsMatte(Targets[m]))]_vars

\* owner maps source indices one-to-one onto the n targets.
OneToOneOnto(owner, n) ==
    /\ \A i, j \in DOMAIN owner : owner[i] = owner[j] => i = j
    /\ {owner[i] : i \in DOMAIN owner} = 1..n

\* C27: when a rebuild completes by frames, the matched voxels are in
\* one-to-one correspondence with the target list: rebuild gave each target
\* exactly one source voxel of its own, and at completion that voxel is at
\* the target's (x, y, z) exactly, with rotation (0, 0, 0).
CompletedRebuildMatchesTargets ==
    [][/\ \A m \in 1..Len(Targets) :
             RebuildRuns(m)
             => LET owner == Assign(voxels', Targets[m], 1, << >>)
                IN /\ OneToOneOnto(owner, Len(Targets[m]))
                   /\ \A i \in 1..Len(voxels') :
                         IF i \in DOMAIN owner
                         THEN /\ ~rebuildTargets'[i].isRubble
                              /\ rebuildTargets'[i].x = Targets[m][owner[i]].x
                              /\ rebuildTargets'[i].y = Targets[m][owner[i]].y
                              /\ rebuildTargets'[i].z = Targets[m][owner[i]].z
                         ELSE rebuildTargets'[i].isRubble
       /\ Completes
          => \A i \in 1..Len(voxels') :
                ~rebuildTargets[i].isRubble
                => /\ voxels'[i].x = rebuildTargets[i].x
                   /\ voxels'[i].y = rebuildTargets[i].y
                   /\ voxels'[i].z = rebuildTargets[i].z
                   /\ voxels'[i].rx = 0
                   /\ voxels'[i].ry = 0
                   /\ voxels'[i].rz = 0]_vars

\* A rebuild onto three targets has completed, started while the voxels
\* were falling apart and turning (the snapshot it pushed has a voxel off
\* the z = 0 plane of every model).
CompletedRebuildWitness ==
    /\ lastOp.name = "tick"
    /\ state = STABLE
    /\ Len(undoStack) = 1
    /\ \E i \in 1..Len(Top(undoStack)) : Top(undoStack)[i].z # 0
    /\ Cardinality({i \in 1..Len(rebuildTargets) :
                       ~rebuildTargets[i].isRubble}) = 3
    /\ \A i \in 1..Len(voxels) :
          voxels[i].rx = 0 /\ voxels[i].ry = 0 /\ voxels[i].rz = 0

\* Is the score of source i for the target below the score of source j?
\* The score is the colour distance plus the material penalty when the
\* materials differ.
ScoreBelow(vs, target, i, j) ==
    ScoreLess(Dist2(vs[i].color, Color(target.color)),
              MatPenalty(vs[i].material, target.material),
              Dist2(vs[j].color, Color(target.color)),
              MatPenalty(vs[j].material, target.material))

\* The source that owner gives to target k.
SourceOf(owner, k) == CHOOSE i \in DOMAIN owner : owner[i] = k

\* C28: for each target, in target-list order, rebuild assigns the
\* not-yet-assigned source voxel with the smallest score (colour distance,
\* plus the material penalty unless the materials match); on equal scores
\* it takes the one that comes first in the field order.
RebuildAssignsGreedily ==
    [][\A m \in 1..Len(Targets) :
          RebuildRuns(m)
          => LET owner == Assign(voxels', Targets[m], 1, << >>)
             IN \A k \in 1..Len(Targets[m]) :
                   /\ \E i \in DOMAIN owner : owner[i] = k
                   /\ LET s == SourceOf(owner, k)
                          free == {j \in 1..Len(voxels') :
                                      j \notin DOMAIN owner \/ owner[j] >= k}
                      IN /\ ~rebuildTargets'[s].isRubble
                         /\ rebuildTargets'[s].x = Targets[m][k].x
                         /\ rebuildTargets'[s].y = Targets[m][k].y
                         /\ rebuildTargets'[s].z = Targets[m][k].z
                         /\ \A j \in free :
                               /\ ~ScoreBelow(voxels', Targets[m][k], j, s)
                               /\ j < s
                                  => ScoreBelow(voxels', Targets[m][k], s, j)]_vars

\* rebuild has just matched the three-voxel target list on a field whose
\* first two voxels have one colour and different materials: they tie for
\* the first target (its material is absent), and the first voxel has it.
RebuildTieWitness ==
    /\ lastOp = Op("rebuild", << 3 >>)
    /\ state = REBUILDING
    /\ Len(voxels) = 3
    /\ voxels[1].color = Color(Targets[3][1].color)
    /\ voxels[2].color = voxels[1].color
    /\ voxels[2].material # voxels[1].material
    /\ ~rebuildTargets[1].isRubble
    /\ rebuildTargets[1].x = Targets[3][1].x
    /\ rebuildTargets[1].y = Targets[3][1].y

\* Voxel i is matched and, ms milliseconds after the start of the rebuild,
\* its delay has not elapsed.
Held(i, ms) ==
    /\ i <= Len(rebuildTargets)
    /\ ~rebuildTargets[i].isRubble
    /\ ms * Scale < rebuildTargets[i].delay

\* Voxel i is matched and its delay has elapsed after ms milliseconds.
Released(i, ms) ==
    /\ i <= Len(rebuildTargets)
    /\ ~rebuildTargets[i].isRubble
    /\ ms * Scale >= rebuildTargets[i].delay

\* C29: during REBUILDING, in every frame in which the time elapsed since
\* the start of the rebuild is less than a matched voxel's delay, that
\* voxel's position, rotation and material are unchanged and the rebuild
\* does not complete; and a matched voxel with a higher target y never
\* starts moving before one with a lower target y.
DelayHoldsVoxel ==
    [][RebuildFrame
       => LET ms == now' - rebuildStartTime
          IN /\ \A i \in 1..Len(voxels) :
                   Held(i, ms)
                   => /\ voxels'[i].x = voxels[i].x
                      /\ voxels'[i].y = voxels[i].y
                      /\ voxels'[i].z = voxels[i].z
                      /\ voxels'[i].rx = voxels[i].rx
                      /\ voxels'[i].ry = voxels[i].ry
                      /\ voxels'[i].rz = voxels[i].rz
                      /\ voxels'[i].material = voxels[i].material
                      /\ state' = REBUILDING
             /\ \A i, j \in 1..Len(voxels) :
                   (/\ Released(i, ms)
                    /\ j <= Len(rebuildTargets)
                    /\ ~rebuildTargets[j].isRubble
                    /\ rebuildTargets[j].y < rebuildTargets[i].y)
                   => Released(j, ms)]_vars

\* A frame of a rebuild has run with one matched voxel released, away from
\* its target, and another, whose target is higher, still held where the
\* rebuild found it.
DelayHoldsWitness ==
    /\ lastOp.name = "tick"
    /\ state = REBUILDING
    /\ undoStack # << >>
    /\ \E i, j \in 1..Len(voxels) :
          /\ Held(i, now - rebuildStartTime)
          /\ Released(j, now - rebuildStartTime)
          /\ rebuildTargets[j].y < rebuildTargets[i].y
          /\ voxels[j].x # rebuildTargets[j].x
          /\ i <= Len(Top(undoStack))
          /\ ToFixed2(voxels[i].x) = Top(undoStack)[i].x
          /\ ToFixed2(voxels[i].y) = Top(undoStack)[i].y
          /\ rebuildTargets[i].x # voxels[i].x

IndicesAt(vs, p) ==
    {i \in 1..Len(vs) : vs[i].x = p[1] /\ vs[i].y = p[2] /\ vs[i].z = p[3]}

\* The least index of a non-empty set of indices.
First(idx) == CHOOSE i \in idx : \A j \in idx : i <= j

\* The cell of an erase call.
CellOf(arg) == << arg[1], arg[2], arg[3] >>

\* The voxels at cells other than p and its mirror cell, in list order.
Elsewhere(vs, p) ==
    FilterSeq(vs, (1..Len(vs)) \ (IndicesAt(vs, p)
                                    \cup IndicesAt(vs, MirrorOf(p))))

\* C31 as stated: erase of the voxel picked at (x,y,z) removes that voxel;
\* with mirror mode on it also removes the voxel at (-x,y,z) when one is
\* present; every voxel at another position stays in the field unchanged.
EraseRemovesPicked ==
    [][CallOf("erase")
       => LET p == CellOf(lastOp'.arg)
              k == lastOp'.arg[4]
          IN /\ voxels[k].id \notin IdsOf(voxels')
             /\ (isMirrorMode /\ p[1] # 0
                 /\ IndicesAt(voxels, MirrorOf(p)) # {})
                => Cardinality(IndicesAt(voxels', MirrorOf(p)))
                      < Cardinality(IndicesAt(voxels, MirrorOf(p)))
             /\ Elsewhere(voxels', p) = Elsewhere(voxels, p)]_vars

\* Is v a copy of the placeholder: white, Matte, where rebuild puts it?
LikePlaceholder(v) ==
    /\ v.color = Placeholder.color
    /\ v.material = MATTE
    /\ v.x = Placeholder.x /\ v.y = Placeholder.y /\ v.z = Placeholder.z

\* The rebuild in flight started on an empty field, with one target or more:
\* the snapshot it pushed is the empty list and no voxel is rubble.
FromNothing ==
    /\ state = REBUILDING
    /\ undoStack # << >>
    /\ Top(undoStack) = << >>
    /\ \A i \in 1..Len(rebuildTargets) : ~rebuildTargets[i].isRubble

\* C32: rebuild(target) on an empty field with a target of M >= 1 voxels
\* enters REBUILDING with exactly M voxels, none of them rubble (the white
\* Matte placeholder and M - 1 clones of it), and on completion the field
\* holds exactly M voxels, one at each target position.
RebuildFromNothing ==
    [][/\ \A m \in 1..Len(Targets) :
             (RebuildRuns(m) /\ voxels = << >> /\ Len(Targets[m]) >= 1)
             => /\ state' = REBUILDING
                /\ Len(voxels') = Len(Targets[m])
                /\ Len(rebuildTargets') = Len(Targets[m])
                /\ voxels'[1] = Placeholder
                /\ \A i \in 1..Len(voxels') :
                      /\ LikePlaceholder(voxels'[i])
                      /\ ~rebuildTargets'[i].isRubble
                /\ \A k \in 1..Len(Targets[m]) :
                      Cardinality(IndicesAt(rebuildTargets',
                                            << Targets[m][k].x, Targets[m][k].y,
                                               Targets[m][k].z >>)) = 1
       /\ (Completes /\ FromNothing)
          => /\ Len(voxels') = Len(rebuildTargets)
             /\ \A i \in 1..Len(voxels') :
                   /\ voxels'[i].x = rebuildTargets[i].x
                   /\ voxels'[i].y = rebuildTargets[i].y
                   /\ voxels'[i].z = rebuildTargets[i].z]_vars

\* A rebuild of nothing onto three targets has completed: three white
\* Matte voxels on three different cells.
RebuildFromNothingWitness ==
    /\ lastOp.name = "tick"
    /\ state = STABLE
    /\ undoStack # << >>
    /\ Top(undoStack) = << >>
    /\ Len(voxels) = 3
    /\ \A i \in 1..3 : voxels[i].color = Placeholder.color
    /\ \A i, j \in 1..3 :
          i # j => << voxels[i].x, voxels[i].y >> # << voxels[j].x, voxels[j].y >>

\* The rebuild in flight was given a zero-length target: every voxel is
\* rubble. The snapshot it pushed is the field before the call.
OntoNothing ==
    /\ state = REBUILDING
    /\ undoStack # << >>
    /\ \A i \in 1..Len(rebuildTargets) : rebuildTargets[i].isRubble

\* C33: rebuild with a zero-length target degrades to a no-op on the
\* field's membership: when the state has returned to STABLE the field
\* contains no voxel that was not in it before the call; in particular an
\* empty field stays empty.
EmptyTargetAddsNothing ==
    [][(Completes /\ OntoNothing)
       => /\ Len(voxels') <= Len(Top(undoStack))
          /\ Top(undoStack) = << >> => voxels' = << >>]_vars

\* C34: the number of snapshots in the undo stack plus the number in the
\* redo stack is never above maxHistory (50 in the source): undo and redo
\* move one snapshot slot between the stacks and never grow their total.
HistoryTotalBounded ==
    [][/\ Len(undoStack') + Len(redoStack') <= maxHistory
       /\ (CallOf("undo") \/ CallOf("redo"))
          => Len(undoStack') + Len(redoStack')
                = Len(undoStack) + Len(redoStack)]_vars

\* An undo() has just moved a slot from a full undo stack to the redo
\* stack: the two stacks together hold maxHistory snapshots.
HistoryTotalWitness ==
    /\ lastOp.name = "undo"
    /\ redoStack # << >>
    /\ Len(undoStack) + Len(redoStack) = maxHistory

\* C35: after every engine operation has returned, the most recent
\* history-changed(canUndo, canRedo) notification equals (undo stack
\* non-empty, redo stack non-empty), and the most recent state-changed
\* notification equals the current transition state.
NotificationsCurrent ==
    /\ historySeen = << undoStack # << >>, redoStack # << >> >>
    /\ stateSeen = state

\* undo() has just ended a rebuild: the UI was told REBUILDING and
\* (canUndo, no redo) by rebuild, and now holds STABLE and (no undo,
\* canRedo).
NotificationsWitness ==
    /\ lastOp.name = "undo"
    /\ rebuildTargets # << >>
    /\ now = rebuildStartTime
    /\ undoStack = << >>
    /\ stateSeen = STABLE
    /\ historySeen = << FALSE, TRUE >>

\* C36: whenever the selection set is non-empty the engine is in build mode
\* and in state STABLE, under every interleaving of the pointer events of a
\* selection drag with setMode, setTool, dismantle, rebuild, undo and redo.
SelectionOnlyInStableBuild ==
    selectedVoxelIds # {} => (mode = BUILD /\ state = STABLE)

\* The voxel of the list that carries the id.
WithId(vs, id) == vs[CHOOSE i \in 1..Len(vs) : vs[i].id = id]

\* C37: every id in the selection set is the id of a voxel currently in the
\* field, and it is the same voxel that was selected; this holds also after
\* undo, redo and loadInitialModel, which reassign the voxel ids (the voxel
\* an id denotes after such a call has the colour and material it denoted
\* before, and after loadInitialModel the position too).
SelectionDenotesVoxels ==
    [][/\ selectedVoxelIds' \subseteq IdsOf(voxels')
       /\ (CallOf("undo") \/ CallOf("redo") \/ CallOf("loadInitialModel"))
          => \A id \in selectedVoxelIds' \cap IdsOf(voxels') :
                /\ id \in IdsOf(voxels)
                /\ WithId(voxels', id).color = WithId(voxels, id).color
                /\ WithId(voxels', id).material = WithId(voxels, id).material
                /\ CallOf("loadInitialModel")
                   => /\ WithId(voxels', id).x = WithId(voxels, id).x
                      /\ WithId(voxels', id).y = WithId(voxels, id).y
                      /\ WithId(voxels', id).z = WithId(voxels, id).z]_vars

\* The ids of the voxel list, in list order.
IdList(vs) == [i \in 1..Len(vs) |-> vs[i].id]

\* C38: in every reachable state with state = REBUILDING, the list of
\* rebuild targets has the same length as the voxel list and entry i is the
\* target of voxel i: no operation adds, removes or reorders voxels while a
\* rebuild is in flight.
TargetsAlignedInFlight ==
    [][/\ state' = REBUILDING => Len(rebuildTargets') = Len(voxels')
       /\ (state = REBUILDING /\ state' = REBUILDING)
          => IdList(voxels') = IdList(voxels)]_vars

\* C39: while the state is DISMANTLING, frames never change the transition
\* state and never push history: the engine leaves DISMANTLING only through
\* rebuild, through undo or redo with a non-empty stack, or through
\* loadInitialModel.
DismantlingEndsByCallOnly ==
    [][state = DISMANTLING
       => /\ lastOp'.name = "tick"
             => /\ state' = DISMANTLING
                /\ UNCHANGED << undoStack, redoStack >>
          /\ state' # DISMANTLING
             => \/ CallOf("rebuild")
                \/ CallOf("loadInitialModel")
                \/ CallOf("undo") /\ undoStack # << >>
                \/ CallOf("redo") /\ redoStack # << >>]_vars

\* Frames have run in DISMANTLING: a voxel has turned and come down onto
\* the floor, and the state is still DISMANTLING.
DismantlingFramesWitness ==
    /\ lastOp.name = "tick"
    /\ state = DISMANTLING
    /\ \E i \in 1..Len(voxels) :
          /\ voxels[i].rx # 0
          /\ voxels[i].y = FloorRest


\* C40: with mirror mode on, an accepted place(0, y, z) adds exactly one
\* voxel: the mirrored cell is the cell itself, so the field grows by one
\* voxel, standing on that cell, and one history snapshot, of the field
\* before the call, is pushed.
MirrorOnAxisAddsOne ==
    [][(/\ CallOf("place")
        /\ isMirrorMode
        /\ lastOp'.arg[1] = 0
        /\ Len(voxels) < MAX_VOXELS
        /\ ~SomeAt(voxels, lastOp'.arg[1], lastOp'.arg[2], lastOp'.arg[3]))
       => /\ Len(voxels') = Len(voxels) + 1
          /\ SubSeq(voxels', 1, Len(voxels)) = voxels
          /\ CellOf(lastOp'.arg) = << voxels'[Len(voxels')].x,
                                      voxels'[Len(voxels')].y,
                                      voxels'[Len(voxels')].z >>
          /\ Len(undoStack') = Min(Len(undoStack) + 1, maxHistory)
          /\ Top(undoStack') = getVoxelData(voxels)
          /\ \A i \in 1..(Len(undoStack') - 1) :
                undoStack'[i] = undoStack[i + Len(undoStack) + 1
                                            - Len(undoStack')]]_vars

\* C40 witness: a place on the mirror axis has just been accepted with
\* mirror mode on, and the field has one voxel more than before.
MirrorOnAxisWitness ==
    /\ lastOp.name = "place"
    /\ lastOp.arg[1] = 0
    /\ isMirrorMode
    /\ Pushed
    /\ Len(probe.after) = Len(probe.before) + 1
    /\ Len(voxels) >= 2

====
